---- MODULE Spec2Model ----
(***************************************************************************)
(* State-machine model of the demand-sensing assistant:                    *)
(*   - the frontend's MockDataService (forecast cache, approval update)    *)
(*     and the Data Override widget that drives it;                        *)
(*   - the Research sub-agent's two tools (warehouse backfill, qualitative *)
(*     description store) over the ADK session state;                      *)
(*   - the five root tools that bridge the orchestrator to the sub-agents, *)
(*     and the lazily constructed sub-agent singletons behind them;        *)
(*   - the frontend's AgentEngineClient (stream parsing, credentials) and  *)
(*     the chatbot that falls back to canned answers;                      *)
(*   - the Sidebar Chat widget (modes, history, keyword routing) and the   *)
(*     app's fetcher of the charts the runtime saved as artifacts.         *)
(*                                                                         *)
(* Numbers that are floats in the source are scaled integers here; the     *)
(* unit of each is given where it is defined.  Text is a sequence of       *)
(* one-character strings wherever the code looks inside it (dates), and a  *)
(* plain string where the code only stores or compares it.                 *)
(***************************************************************************)
EXTENDS Integers, Sequences, FiniteSets, TLC

VARIABLES
    forecast_cache,   \* MockDataService._forecast_cache: key -> ForecastResult
    fetched,          \* history: the keys get_forecast has been called for
    today,            \* the value date.today() returns
    env,              \* os.environ: BQ_COMPUTE_PROJECT_ID, BQ_DATASET_ID
    table,            \* the warehouse table, a sequence of rows
    state,            \* tool_context.state: the ADK session state
    calls,            \* warehouse API calls made by the latest research-tool call
    last,             \* the latest operation: [op, args, raised, value]
    http,             \* HTTP requests the frontend has sent to the hosted runtime
    runtime,          \* what the hosted runtime does with a POST in this behaviour
    session_state,    \* st.session_state: the Streamlit session of the frontend
    modules           \* module-level globals of the sub-agent modules

vars ==
    <<forecast_cache, fetched, today, env, table, state, calls, last, http,
      runtime, session_state, modules>>

\* The frontend's own state, and the sub-agent modules' globals.
frontendVars == <<http, runtime, session_state>>

(***************************************************************************)
(* Python helpers                                                          *)
(***************************************************************************)

\* Optional[T]: None is the empty sequence, a value v is <<v>>.
None == <<>>

Some(v) == <<v>>

Abs(n) == IF n < 0 THEN -n ELSE n

Min(a, b) == IF a < b THEN a ELSE b

Max(a, b) == IF a > b THEN a ELSE b

\* Python's round(): n/d to the nearest integer, ties to the even one (d > 0).
RoundHalfEven(n, d) ==
    LET q == n \div d
        r == n % d
    IN  IF 2 * r < d THEN q
        ELSE IF 2 * r > d THEN q + 1
        ELSE IF q % 2 = 0 THEN q ELSE q + 1

\* dict.get(key, default)
Get(d, k, default) == IF k \in DOMAIN d THEN d[k] ELSE default

\* dict.update(other): other's entries win.
Update(d, other) == other @@ d

(***************************************************************************)
(* datetime.date                                                           *)
(***************************************************************************)

Date(y, m, d) == [year |-> y, month |-> m, day |-> d]

IsLeap(y) == (y % 4 = 0) /\ ((y % 100 # 0) \/ (y % 400 = 0))

DaysInMonth(y, m) ==
    IF m = 2 THEN (IF IsLeap(y) THEN 29 ELSE 28)
    ELSE IF m \in {4, 6, 9, 11} THEN 30 ELSE 31

RECURSIVE DaysBeforeMonth(_, _)
DaysBeforeMonth(y, m) ==
    IF m = 1 THEN 0 ELSE DaysBeforeMonth(y, m - 1) + DaysInMonth(y, m - 1)

\* date.toordinal(): 0001-01-01 is day 1.
ToOrdinal(dt) ==
    LET y == dt.year - 1
    IN  y * 365 + (y \div 4) - (y \div 100) + (y \div 400)
        + DaysBeforeMonth(dt.year, dt.month) + dt.day

\* date.weekday(): Monday is 0, Sunday is 6.
Weekday(dt) == (ToOrdinal(dt) + 6) % 7

\* date comparison (preceded by the comparison that also holds of equal dates)
DateAfterOrEqualMutant(a, b) == ToOrdinal(a) >= ToOrdinal(b)

DateAfter(a, b) == ToOrdinal(a) > ToOrdinal(b)

Digits == <<"0", "1", "2", "3", "4", "5", "6", "7", "8", "9">>

DigitChar(n) == Digits[n + 1]

IsDigit(c) == \E i \in 1..Len(Digits) : Digits[i] = c

DigitValue(c) == (CHOOSE i \in 1..Len(Digits) : Digits[i] = c) - 1

\* zero-padded decimal of n in w characters (%Y, %m, %d)
RECURSIVE Pad(_, _)
Pad(n, w) == IF w = 0 THEN <<>> ELSE Pad(n \div 10, w - 1) \o <<DigitChar(n % 10)>>

\* date.strftime("%Y-%m-%d") and date.isoformat()
Strftime(dt) == Pad(dt.year, 4) \o <<"-">> \o Pad(dt.month, 2) \o <<"-">> \o Pad(dt.day, 2)

(***************************************************************************)
(* MockDataService: catalog and driver templates                          *)
(*   Units: "Statistical Baseline Forecast", "Product Detail Page (PDP)   *)
(*   Views" in hundredths; temperatures, UV, velocities, days-on-hand in  *)
(*   tenths; rates, depths, intensities, trend velocity in thousandths;   *)
(*   counts, spend, ranks, scores, price gap in units.                    *)
(***************************************************************************)

DRIVER_TEMPLATES ==
    [ base |->
        ( "Statistical Baseline Forecast" :> 9000 @@
          "Ingredient Trend Velocity" :> 150 @@
          "Brand Sentiment Score" :> 72 @@
          "Viral Hashtag Volume" :> 1400 @@
          "Influencer Mention Count" :> 24 @@
          "Performance Marketing Spend" :> 200000 @@
          "Campaign Click-Through-Rate (CTR)" :> 20 @@
          "Video Completion Rate" :> 330 @@
          "Retargeting Pool Size" :> 17000 @@
          "On-Platform Discount Depth" :> 100 @@
          "Bundle Offer Active Status" :> FALSE @@
          "Flash Sale Participation" :> FALSE @@
          "Cart-Level Offer Conversion" :> 60 @@
          "Share of Search (Keyword Rank)" :> 5 @@
          "Product Detail Page (PDP) Views" :> 4800000 @@
          "Buy Box Win Rate" :> 950 @@
          "Rating & Review Velocity" :> 35 @@
          "Max Temperature Forecast" :> 270 @@
          "Humidity Index" :> 600 @@
          "UV Index" :> 55 @@
          "Air Quality Index (AQI)" :> 140 @@
          "Competitor Price Gap" :> -10 @@
          "Competitor Out-of-Stock Status" :> FALSE @@
          "Competitor Promo Intensity" :> 100 @@
          "Competitor New Launch Signal" :> FALSE @@
          "Real-Time Sales Velocity" :> 110 @@
          "Inventory Days on Hand (DOH)" :> 70 @@
          "Distributor Open Orders" :> 300 @@
          "Stock-Out Incidents" :> 0 ),
      bullish |->
        ( "Ingredient Trend Velocity" :> 300 @@
          "Brand Sentiment Score" :> 82 @@
          "Viral Hashtag Volume" :> 2500 @@
          "Influencer Mention Count" :> 40 @@
          "Performance Marketing Spend" :> 280000 @@
          "Campaign Click-Through-Rate (CTR)" :> 28 @@
          "On-Platform Discount Depth" :> 200 @@
          "Flash Sale Participation" :> TRUE @@
          "Share of Search (Keyword Rank)" :> 2 @@
          "Product Detail Page (PDP) Views" :> 7500000 @@
          "Buy Box Win Rate" :> 980 @@
          "Competitor Out-of-Stock Status" :> TRUE @@
          "Real-Time Sales Velocity" :> 180 ),
      bearish |->
        ( "Ingredient Trend Velocity" :> -100 @@
          "Brand Sentiment Score" :> 48 @@
          "Viral Hashtag Volume" :> 200 @@
          "Influencer Mention Count" :> 2 @@
          "Performance Marketing Spend" :> 20000 @@
          "Campaign Click-Through-Rate (CTR)" :> 8 @@
          "On-Platform Discount Depth" :> 0 @@
          "Share of Search (Keyword Rank)" :> 20 @@
          "Product Detail Page (PDP) Views" :> 1000000 @@
          "Buy Box Win Rate" :> 700 @@
          "Competitor Promo Intensity" :> 350 @@
          "Competitor New Launch Signal" :> TRUE @@
          "Real-Time Sales Velocity" :> 40 ) ]

\* base_demand in hundredths, sensitivities in tenths
PRODUCTS ==
    ( "PONDS_SUPER_LIGHT_GEL_100G" :>
        [ base_demand |-> 9200, weather_sensitivity |-> 8, social_sensitivity |-> 7 ] )

CUSTOMERS == {"BLINKIT"}

LOCATIONS == {"BANGALORE"}

\* "POND" in sku_id, for the product ids of the model
ContainsPOND(sku_id) == sku_id \in {"PONDS_SUPER_LIGHT_GEL_100G", "PONDS"}

(***************************************************************************)
(* MockDataService.get_demand_drivers                                      *)
(***************************************************************************)

\* A classifier that tries the fifth days before the third days and weekends.
ScenarioBearishFirstMutant(as_of_date) ==
    IF as_of_date.day % 5 = 0 THEN "bearish"
    ELSE IF as_of_date.day % 3 = 0 \/ Weekday(as_of_date) \in {5, 6} THEN "bullish"
    ELSE "base"

Scenario(as_of_date) ==
    LET day_of_week == Weekday(as_of_date)
        day_of_month == as_of_date.day
    IN  IF day_of_month % 3 = 0 \/ day_of_week \in {5, 6} THEN "bullish"
        ELSE IF day_of_month % 5 = 0 THEN "bearish"
        ELSE "base"

Upper(scenario) ==
    CASE scenario = "bullish" -> "BULLISH"
      [] scenario = "bearish" -> "BEARISH"
      [] OTHER -> "BASE"

get_demand_drivers(sku_id, customer_id, location_id, as_of_date) ==
    LET scenario == Scenario(as_of_date)
        templated == IF scenario # "base"
                     THEN Update(DRIVER_TEMPLATES.base, DRIVER_TEMPLATES[scenario])
                     ELSE DRIVER_TEMPLATES.base
        product_info == Get(PRODUCTS, sku_id, [x \in {} |-> 0])
        based == Update(templated,
                        "Statistical Baseline Forecast" :>
                            Get(product_info, "base_demand", 8500))
        drivers == IF customer_id = "ZEPTO"
                   THEN Update(based,
                          "Statistical Baseline Forecast" :>
                              (based["Statistical Baseline Forecast"] * 95) \div 100 @@
                          "Product Detail Page (PDP) Views" :>
                              (based["Product Detail Page (PDP) Views"] * 85) \div 100)
                   ELSE based
    IN  [ sku_id |-> sku_id, customer_id |-> customer_id, location_id |-> location_id,
          as_of_date |-> Strftime(as_of_date), drivers |-> drivers,
          scenario |-> Upper(scenario) ]

(***************************************************************************)
(* Boost calculations.  Each sum is formed in units of 10^-7 and rounded   *)
(* to 3 decimals, so a contribution is an integer number of thousandths.   *)
(***************************************************************************)

Round3(n) == RoundHalfEven(n, 10000)

calc_social_boost(drivers) ==
    LET trend == Get(drivers, "Ingredient Trend Velocity", 0)
        sentiment == Get(drivers, "Brand Sentiment Score", 70)
        volume == Get(drivers, "Viral Hashtag Volume", 0)
    IN  Round3(4000 * trend + (30000 * sentiment - 2100000) + Min(300 * volume, 900000))

calc_marketing_boost(drivers) ==
    LET spend == Get(drivers, "Performance Marketing Spend", 0)
        ctr == Get(drivers, "Campaign Click-Through-Rate (CTR)", 0)
    IN  Round3(Min(5 * spend, 1500000) + 20000 * ctr)

calc_promo_boost(drivers) ==
    LET discount == Get(drivers, "On-Platform Discount Depth", 0)
        bundle == IF Get(drivers, "Bundle Offer Active Status", FALSE) THEN 500000 ELSE 0
        flash == IF Get(drivers, "Flash Sale Participation", FALSE) THEN 1000000 ELSE 0
    IN  Round3(8000 * discount + bundle + flash)

calc_shelf_boost(drivers) ==
    LET rank == Get(drivers, "Share of Search (Keyword Rank)", 10)
        buy_box == Get(drivers, "Buy Box Win Rate", 900)
    IN  Round3(Max(0, 10 - rank) * 100000 + 5000 * (buy_box - 900))

calc_weather_boost(drivers, sku_id) ==
    LET temp == Get(drivers, "Max Temperature Forecast", 250)
        uv == Get(drivers, "UV Index", 50)
        product_info == Get(PRODUCTS, sku_id, [x \in {} |-> 0])
        sensitivity == Get(product_info, "weather_sensitivity", 5)
    IN  IF ContainsPOND(sku_id)
        THEN Round3(1500 * Max(0, temp - 250) * sensitivity
                    + 2000 * Max(0, uv - 50) * sensitivity)
        ELSE 0

calc_competitor_boost(drivers) ==
    LET price_gap == Get(drivers, "Competitor Price Gap", 0)
        oos == IF Get(drivers, "Competitor Out-of-Stock Status", FALSE) THEN 1500000 ELSE 0
        promo == -5000 * Get(drivers, "Competitor Promo Intensity", 0)
    IN  Round3(-10000 * price_gap + oos + promo)

Categories ==
    {"Social & Trend", "Marketing Spend", "Trade Promo", "Digital Shelf", "Weather",
     "Competitor"}

RECURSIVE SumOver(_, _)
SumOver(f, S) ==
    IF S = {} THEN 0
    ELSE LET k == CHOOSE x \in S : TRUE IN f[k] + SumOver(f, S \ {k})

\* sum(contributions.values()), in thousandths
TotalBoost(contributions) == SumOver(contributions, DOMAIN contributions)

\* round(baseline * (1 + total_boost)): baseline in hundredths, boost in thousandths
SensedDemand(baseline, total_boost) == RoundHalfEven(baseline * (1000 + total_boost), 100000)

(***************************************************************************)
(* MockDataService.get_forecast / update_forecast_approval                 *)
(*   ForecastResult: baseline_forecast in hundredths, sensed_demand in     *)
(*   units, boost_percent in tenths of a percent, confidence_score in      *)
(*   hundredths, driver_contributions in thousandths, planner_override in  *)
(*   tenths of a unit.  The reasoning text is display only and is left out.*)
(***************************************************************************)

CacheKey(sku_id, customer_id, location_id, date_str) ==
    <<sku_id, customer_id, location_id, date_str>>

NewForecast(sku_id, customer_id, location_id, as_of_date) ==
    LET driver_data == get_demand_drivers(sku_id, customer_id, location_id, as_of_date)
        drivers == driver_data.drivers
        scenario == driver_data.scenario
        contributions ==
            ( "Social & Trend" :> calc_social_boost(drivers) @@
              "Marketing Spend" :> calc_marketing_boost(drivers) @@
              "Trade Promo" :> calc_promo_boost(drivers) @@
              "Digital Shelf" :> calc_shelf_boost(drivers) @@
              "Weather" :> calc_weather_boost(drivers, sku_id) @@
              "Competitor" :> calc_competitor_boost(drivers) )
        total_boost == TotalBoost(contributions)
        baseline == Get(drivers, "Statistical Baseline Forecast", 8500)
    IN  [ sku_id |-> sku_id,
          customer_id |-> customer_id,
          location_id |-> location_id,
          as_of_date |-> Strftime(as_of_date),
          baseline_forecast |-> baseline,
          sensed_demand |-> SensedDemand(baseline, total_boost),
          boost_percent |-> total_boost,
          confidence_score |-> IF scenario = "BASE" THEN 85
                               ELSE IF scenario = "BULLISH" THEN 75 ELSE 70,
          driver_contributions |-> contributions,
          approval_status |-> "pending",
          planner_override |-> None ]

\* The cache after get_forecast; the call returns CacheAfterGet(...)[cache_key].
CacheAfterGetRecomputeMutant(cache, sku_id, customer_id, location_id, as_of_date) ==
    LET cache_key == CacheKey(sku_id, customer_id, location_id, Strftime(as_of_date))
    IN  (cache_key :> NewForecast(sku_id, customer_id, location_id, as_of_date)) @@ cache

CacheAfterGet(cache, sku_id, customer_id, location_id, as_of_date) ==
    LET cache_key == CacheKey(sku_id, customer_id, location_id, Strftime(as_of_date))
    IN  IF cache_key \in DOMAIN cache THEN cache
        ELSE (cache_key :> NewForecast(sku_id, customer_id, location_id, as_of_date)) @@ cache

\* Mutants of the approval update: one re-opens a result that already has the
\* status, one drops the override, one takes the override as the sensed demand.
CacheAfterUpdateReopenMutant(cache, cache_key, status, override_value) ==
    LET result == cache[cache_key]
    IN  [cache EXCEPT ![cache_key] =
            [result EXCEPT !.approval_status =
                IF result.approval_status = status THEN "pending" ELSE status]]

CacheAfterUpdateDropOverrideMutant(cache, cache_key, status, override_value) ==
    [cache EXCEPT ![cache_key] = [cache[cache_key] EXCEPT !.approval_status = status]]

CacheAfterUpdateSensedMutant(cache, cache_key, status, override_value) ==
    LET result == cache[cache_key]
        updated == IF override_value # None
                   THEN [result EXCEPT !.approval_status = status,
                                       !.planner_override = override_value,
                                       !.sensed_demand = override_value[1] \div 10]
                   ELSE [result EXCEPT !.approval_status = status]
    IN  [cache EXCEPT ![cache_key] = updated]

\* An update that stores the override argument also when it is None.
CacheAfterUpdateClearOverrideMutant(cache, cache_key, status, override_value) ==
    [cache EXCEPT ![cache_key] =
        [cache[cache_key] EXCEPT !.approval_status = status,
                                 !.planner_override = override_value]]

\* The cache after update_forecast_approval on a cached key.
CacheAfterUpdate(cache, cache_key, status, override_value) ==
    LET result == cache[cache_key]
        updated == IF override_value # None
                   THEN [result EXCEPT !.approval_status = status,
                                       !.planner_override = override_value]
                   ELSE [result EXCEPT !.approval_status = status]
    IN  [cache EXCEPT ![cache_key] = updated]

(***************************************************************************)
(* Inputs of the mock service and of the Data Override widget              *)
(***************************************************************************)

\* At most this many forecast contexts are fetched in one run.
MaxCached == 2

\* The context of direct calls to the service: an unknown product at customer
\* "ZEPTO", which no widget can select.  The widget uses the catalog.
Contexts ==
    { <<"DOVE", "ZEPTO", "BANGALORE">> }

\* Saturday 2025-12-06 (bullish), Wednesday 2025-12-10 (bearish),
\* Thursday 2025-12-11 (base)
AsOfDates == {Date(2025, 12, 6), Date(2025, 12, 10), Date(2025, 12, 11)}

\* The statuses the Approve and Reject buttons pass.
ButtonStatuses == {"approved", "rejected"}

\* What the planner types in the number input, as a distance from the
\* default (the sensed demand), in tenths of a unit.
OverrideOffsets == {0, 5, 10}

\* Override values of a direct call, in tenths of a unit.
OverrideValues == {None, Some(1000)}

Last(op, args, raised, value) == [op |-> op, args |-> args, raised |-> raised, value |-> value]

(***************************************************************************)
(* Actions of the mock service                                             *)
(***************************************************************************)

MockFrame == UNCHANGED <<today, env, table, state, calls, frontendVars, modules>>

get_forecast(sku_id, customer_id, location_id, as_of_date) ==
    LET cache_key == CacheKey(sku_id, customer_id, location_id, Strftime(as_of_date))
    IN  /\ cache_key \in DOMAIN forecast_cache
           \/ Cardinality(DOMAIN forecast_cache) < MaxCached
        /\ forecast_cache' =
               CacheAfterGet(forecast_cache, sku_id, customer_id, location_id, as_of_date)
        /\ fetched' = fetched \cup {cache_key}
        /\ last' = Last("get_forecast", cache_key, FALSE, forecast_cache'[cache_key])
        /\ MockFrame

update_forecast_approval(sku_id, customer_id, location_id, as_of_date, status, override_value) ==
    LET cache_key == CacheKey(sku_id, customer_id, location_id, as_of_date)
    IN  /\ IF cache_key \in DOMAIN forecast_cache
           THEN /\ forecast_cache' =
                       CacheAfterUpdate(forecast_cache, cache_key, status, override_value)
                /\ last' = Last("update_forecast_approval",
                                <<cache_key, status, override_value>>, FALSE,
                                forecast_cache'[cache_key])
           ELSE /\ forecast_cache' = forecast_cache
                /\ last' = Last("update_forecast_approval",
                                <<cache_key, status, override_value>>, TRUE, "ValueError")
        /\ fetched' = fetched
        /\ MockFrame

\* One run of the Data Override widget: the forecast is fetched, the number
\* input holds sensed demand + offset (kept within 0..10000), and at most one
\* of the two buttons is pressed.
OverrideArgument(forecast, override_value) ==
    LET diff == override_value - 10 * forecast.sensed_demand
    IN  IF Abs(diff) > 5 THEN Some(override_value) ELSE None

render_data_override_table(product_id, customer_id, location_id, as_of_date, offset, button) ==
    LET cache_key == CacheKey(product_id, customer_id, location_id, Strftime(as_of_date))
        cached == CacheAfterGet(forecast_cache, product_id, customer_id, location_id,
                                as_of_date)
        forecast == cached[cache_key]
        override_value == Max(0, Min(100000, 10 * forecast.sensed_demand + offset))
    IN  /\ cache_key \in DOMAIN forecast_cache
           \/ Cardinality(DOMAIN forecast_cache) < MaxCached
        /\ forecast_cache' =
               CASE button = "approve" ->
                        CacheAfterUpdate(cached, cache_key, "approved",
                                         OverrideArgument(forecast, override_value))
                 [] button = "reject" ->
                        CacheAfterUpdate(cached, cache_key, "rejected", None)
                 [] OTHER -> cached
        /\ last' = Last("render_data_override_table",
                        <<cache_key, button, override_value>>, FALSE,
                        forecast_cache'[cache_key])
        /\ fetched' = fetched \cup {cache_key}
        /\ MockFrame

EmptyDict == [x \in {} |-> 0]

NoCall == Last("none", <<>>, FALSE, <<>>)

\* The frontend before its first script run: nothing sent, empty session.
NoReply == [kind |-> "none"]

FrontendIdle ==
    /\ http = <<>>
    /\ runtime = NoReply
    /\ session_state = EmptyDict

\* No sub-agent module has been imported: its globals do not exist yet.
NotLoaded == EmptyDict

InitMock ==
    /\ forecast_cache = EmptyDict
    /\ fetched = {}
    /\ today = Date(2025, 12, 15)
    /\ env = [BQ_COMPUTE_PROJECT_ID |-> "", BQ_DATASET_ID |-> ""]
    /\ table = <<>>
    /\ state = EmptyDict
    /\ calls = <<>>
    /\ last = NoCall
    /\ FrontendIdle
    /\ modules = NotLoaded

NextMock ==
    \/ \E c \in Contexts, as_of_date \in AsOfDates :
            get_forecast(c[1], c[2], c[3], as_of_date)
    \/ \E c \in Contexts, as_of_date \in AsOfDates, status \in ButtonStatuses,
          override_value \in OverrideValues :
            update_forecast_approval(c[1], c[2], c[3], Strftime(as_of_date), status,
                                     override_value)
    \/ \E product_id \in DOMAIN PRODUCTS, customer_id \in CUSTOMERS,
          location_id \in LOCATIONS, as_of_date \in AsOfDates,
          offset \in OverrideOffsets, button \in {"none", "approve", "reject"} :
            render_data_override_table(product_id, customer_id, location_id, as_of_date,
                                       offset, button)

SpecMock == InitMock /\ [][NextMock]_vars

(***************************************************************************)
(* The mock service's driver lookup, called on its own                     *)
(***************************************************************************)

\* Catalog and non-catalog products, customers and locations.
DriverProducts == {"PONDS_SUPER_LIGHT_GEL_100G", "DOVE"}

DriverCustomers == {"BLINKIT", "ZEPTO"}

DriverLocations == {"BANGALORE", "MUMBAI"}

\* Every day of December 2025.
DriverDates == {Date(2025, 12, d) : d \in 1..DaysInMonth(2025, 12)}

get_demand_drivers_call(sku_id, customer_id, location_id, as_of_date) ==
    /\ last' = Last("get_demand_drivers", <<sku_id, customer_id, location_id, as_of_date>>,
                    FALSE, get_demand_drivers(sku_id, customer_id, location_id, as_of_date))
    /\ UNCHANGED <<forecast_cache, fetched>>
    /\ MockFrame

NextDrivers ==
    \E sku_id \in DriverProducts, customer_id \in DriverCustomers,
       location_id \in DriverLocations, as_of_date \in DriverDates :
        get_demand_drivers_call(sku_id, customer_id, location_id, as_of_date)

SpecDrivers == InitMock /\ [][NextDrivers]_vars

(***************************************************************************)
(* Research sub-agent tools: constants and library functions               *)
(***************************************************************************)

PRODUCT_ID == "PONDS"

CUSTOMER_ID == "BLINKIT"

LOCATION_ID == "Bangalore"

FEATURE_COLUMNS ==
    << "consensus_baseline_forecast", "real_time_sales_velocity",
       "ingredient_trend_velocity", "brand_sentiment_score", "viral_hashtag_volume",
       "influencer_mention_count", "performance_marketing_spend", "campaign_ctr",
       "video_completion_rate", "retargeting_pool_size", "on_platform_discount_depth",
       "bundle_offer_active_status", "flash_sale_participation",
       "cart_level_offer_conversion", "share_of_search_keyword_rank", "pdp_views",
       "buy_box_win_rate", "rating_and_review_velocity", "max_temperature_forecast",
       "humidity_index", "uv_index", "air_quality_index_aqi", "competitor_price_gap",
       "competitor_out_of_stock_status", "competitor_promo_intensity",
       "competitor_new_launch_signal", "inventory_days_on_hand",
       "distributor_open_orders", "stock_out_incidents" >>

Range(seq) == {seq[i] : i \in 1..Len(seq)}

Restrict(f, S) == [x \in (DOMAIN f) \cap S |-> f[x]]

\* The number a run of digit characters denotes.
RECURSIVE Number(_)
Number(cs) ==
    IF cs = <<>> THEN 0
    ELSE 10 * Number(SubSeq(cs, 1, Len(cs) - 1)) + DigitValue(cs[Len(cs)])

AllDigits(cs) == \A i \in 1..Len(cs) : IsDigit(cs[i])

ValidDate(y, m, d) ==
    /\ y \in 1..9999
    /\ m \in 1..12
    /\ d \in 1..DaysInMonth(y, m)

\* A parser that checks the shape of the string but not the calendar.
fromisoformatShapeOnlyMutant(s) ==
    LET parts == IF Len(s) = 10 /\ s[5] = "-" /\ s[8] = "-"
                 THEN <<SubSeq(s, 1, 4), SubSeq(s, 6, 7), SubSeq(s, 9, 10)>>
                 ELSE <<>>
    IN  IF parts = <<>> THEN None
        ELSE IF ~(AllDigits(parts[1]) /\ AllDigits(parts[2]) /\ AllDigits(parts[3]))
        THEN None
        ELSE Some(Date(Number(parts[1]), Number(parts[2]), Number(parts[3])))

\* date.fromisoformat on YYYY-MM-DD and YYYYMMDD: Some(date), or None where
\* Python raises ValueError.
fromisoformat(s) ==
    LET parts == IF Len(s) = 10 /\ s[5] = "-" /\ s[8] = "-"
                 THEN <<SubSeq(s, 1, 4), SubSeq(s, 6, 7), SubSeq(s, 9, 10)>>
                 ELSE IF Len(s) = 8
                 THEN <<SubSeq(s, 1, 4), SubSeq(s, 5, 6), SubSeq(s, 7, 8)>>
                 ELSE <<>>
    IN  IF parts = <<>> THEN None
        ELSE IF ~(AllDigits(parts[1]) /\ AllDigits(parts[2]) /\ AllDigits(parts[3]))
        THEN None
        ELSE IF ~ValidDate(Number(parts[1]), Number(parts[2]), Number(parts[3]))
        THEN None
        ELSE Some(Date(Number(parts[1]), Number(parts[2]), Number(parts[3])))

\* os.getenv(name): None when unset.  "not value" holds of None and of "".
Falsy(v) == v = None \/ v = Some("")

\* Result envelopes.  The error text is reduced to the message's fixed part.
Failure(error) == [success |-> FALSE, error |-> error]

ApiCall(api, rows) == [api |-> api, rows |-> rows]

(***************************************************************************)
(* Inputs and environment of the research tools                            *)
(***************************************************************************)

\* At most this many rows are in the warehouse table.
MaxRows == 3

\* "Today" moves on at most this many days after StartDate.
MaxDays == 1

StartDate == Date(2025, 12, 15)

NextDate(dt) ==
    IF dt.day < DaysInMonth(dt.year, dt.month) THEN Date(dt.year, dt.month, dt.day + 1)
    ELSE IF dt.month < 12 THEN Date(dt.year, dt.month + 1, 1)
    ELSE Date(dt.year + 1, 1, 1)

\* Requested dates: today and tomorrow (as of StartDate), a day-first string
\* and a day that is not in the calendar.
TargetDates ==
    { Strftime(Date(2025, 12, 15)), Strftime(Date(2025, 12, 16)),
      <<"1", "5", "-", "1", "2", "-", "2", "0", "2", "5">>,
      Strftime(Date(2025, 2, 30)) }

\* A warehouse row: identifiers, date and every feature column.
SourceRow(product_id, customer_id, location_id, date_consensus, v) ==
    ( "product_id" :> product_id @@ "customer_id" :> customer_id @@
      "location_id" :> location_id @@ "date_consensus" :> date_consensus ) @@
    [c \in Range(FEATURE_COLUMNS) |-> v]

\* The table at start: empty, or two rows of other contexts.
SeedTables ==
    { <<>>,
      << SourceRow("DOVE", "ZEPTO", "Mumbai", Strftime(Date(2025, 12, 1)), 1) >> }

EnvValues == {None, Some(""), Some("set")}

\* Descriptions: the empty one and two short ones.
Descriptions == { <<>>, <<"u", "p">>, <<"d", "o", "w", "n">> }

(***************************************************************************)
(* fetch_and_insert_demand_data                                            *)
(***************************************************************************)

\* SELECT <feature columns> ... ORDER BY RAND() LIMIT 1 for the chosen row
QueryRow(row) == Restrict(row, Range(FEATURE_COLUMNS))

NewRowTodayMutant(target_date, random_row) ==
    ( "product_id" :> PRODUCT_ID @@ "customer_id" :> CUSTOMER_ID @@
      "location_id" :> LOCATION_ID @@ "date_consensus" :> Strftime(today) ) @@
    Restrict(random_row, Range(FEATURE_COLUMNS))

NewRow(target_date, random_row) ==
    ( "product_id" :> PRODUCT_ID @@ "customer_id" :> CUSTOMER_ID @@
      "location_id" :> LOCATION_ID @@ "date_consensus" :> target_date ) @@
    Restrict(random_row, Range(FEATURE_COLUMNS))

\* Feature data stamped with the current date instead of the requested one.
FeatureDataTodayMutant(target_date, random_row) ==
    [ product_id |-> PRODUCT_ID, customer_id |-> CUSTOMER_ID,
      location_id |-> LOCATION_ID, date |-> Strftime(today), features |-> random_row ]

FeatureData(target_date, random_row) ==
    [ product_id |-> PRODUCT_ID, customer_id |-> CUSTOMER_ID,
      location_id |-> LOCATION_ID, date |-> target_date, features |-> random_row ]

FetchSuccess(target_date, random_row) ==
    [ success |-> TRUE, product_id |-> PRODUCT_ID, customer_id |-> CUSTOMER_ID,
      location_id |-> LOCATION_ID, date |-> target_date, features |-> random_row ]

\* The call's effect: `ret` is what it returns, `made` the warehouse calls it
\* made, `tbl` and `st` the table and the session state it leaves.
FetchEffect(ret, made, tbl, st, target_date, has_context) ==
    /\ last' = Last("fetch_and_insert_demand_data", <<target_date, has_context>>, FALSE, ret)
    /\ calls' = made
    /\ table' = tbl
    /\ state' = st
    /\ UNCHANGED <<forecast_cache, fetched, today, env, frontendVars, modules>>

\* The warehouse and the state store answer as they will: any of the calls
\* the tool makes may raise, the insert may instead return a non-empty error
\* list, and the query returns any one row of the table.
fetch_and_insert_demand_data(target_date, has_context) ==
    LET parsed_date == fromisoformat(target_date)
        project_id == env.BQ_COMPUTE_PROJECT_ID
        dataset_id == env.BQ_DATASET_ID
        client_call == ApiCall("Client", <<>>)
        query_call == ApiCall("query", <<>>)
        Fail(error, made, tbl) ==
            FetchEffect(Failure(error), made, tbl, state, target_date, has_context)
    IN  IF parsed_date = None
        THEN Fail("Invalid date format", <<>>, table)
        ELSE IF DateAfter(parsed_date[1], today)
        THEN Fail("Cannot insert data for future date", <<>>, table)
        ELSE IF Falsy(project_id) \/ Falsy(dataset_id)
        THEN Fail("BQ_COMPUTE_PROJECT_ID or BQ_DATASET_ID not configured.", <<>>, table)
        ELSE
          \/ Fail("exception", <<client_call>>, table)
          \/ Fail("exception", <<client_call, query_call>>, table)
          \/ /\ table = <<>>
             /\ Fail("No existing data in BigQuery to copy from.",
                     <<client_call, query_call>>, table)
          \/ \E i \in 1..Len(table) :
               LET random_row == QueryRow(table[i])
                   new_row == NewRow(target_date, random_row)
                   made == <<client_call, query_call,
                             ApiCall("insert_rows_json", <<new_row>>)>>
               IN  \/ Fail("exception", made, table)
                   \/ Fail("BigQuery insert failed", made, table)
                   \/ /\ Len(table) < MaxRows
                      /\ has_context
                      /\ Fail("exception", made, Append(table, new_row))
                   \/ /\ Len(table) < MaxRows
                      /\ FetchEffect(
                             FetchSuccess(target_date, random_row), made,
                             Append(table, new_row),
                             IF has_context
                             THEN Update(state, "inserted_demand_data" :>
                                                    FeatureData(target_date, random_row))
                             ELSE state,
                             target_date, has_context)

(***************************************************************************)
(* store_qualitative_description                                           *)
(***************************************************************************)

\* description[:200] + "..." if len(description) > 200 else description
DescriptionPreview(description) ==
    IF Len(description) > 200
    THEN SubSeq(description, 1, 200) \o <<".", ".", ".">>
    ELSE description

\* A context that is stamped with the current date instead of the row's.
QualitativeContextTodayMutant(data, description) ==
    [ product_id |-> data.product_id, customer_id |-> data.customer_id,
      location_id |-> data.location_id, date |-> Strftime(today),
      description |-> description ]

QualitativeContext(data, description) ==
    [ product_id |-> data.product_id, customer_id |-> data.customer_id,
      location_id |-> data.location_id, date |-> data.date,
      description |-> description ]

StoreSuccess(description) ==
    [ success |-> TRUE, message |-> "Qualitative description stored successfully.",
      description_preview |-> DescriptionPreview(description) ]

\* `failing` is the number of the state write that raises (0: none does).
\* Nothing in the function catches it: the exception reaches the caller, and
\* the writes before it stay.
store_qualitative_description(description, has_context, failing) ==
    LET args == <<description, has_context>>
        described == Update(state, "qualitative_description" :> description)
        writes_context == "inserted_demand_data" \in DOMAIN state
        contexted ==
            Update(described, "qualitative_context" :>
                       QualitativeContext(state["inserted_demand_data"], description))
        Return(raised, value, st) ==
            /\ last' = Last("store_qualitative_description", args, raised, value)
            /\ state' = st
            /\ calls' = <<>>
            /\ UNCHANGED <<forecast_cache, fetched, today, env, table, frontendVars, modules>>
    IN  IF description = <<>>
        THEN Return(FALSE, Failure("Description cannot be empty."), state)
        ELSE IF ~has_context
        THEN Return(FALSE, StoreSuccess(description), state)
        ELSE IF failing = 1
        THEN Return(TRUE, "exception", state)
        ELSE IF ~writes_context
        THEN Return(FALSE, StoreSuccess(description), described)
        ELSE IF failing = 2
        THEN Return(TRUE, "exception", described)
        ELSE Return(FALSE, StoreSuccess(description), contexted)

\* Midnight passes.
Tick ==
    /\ ToOrdinal(today) - ToOrdinal(StartDate) < MaxDays
    /\ today' = NextDate(today)
    /\ UNCHANGED <<forecast_cache, fetched, env, table, state, calls, last, frontendVars, modules>>

InitResearch ==
    /\ forecast_cache = EmptyDict
    /\ fetched = {}
    /\ today = StartDate
    /\ env \in [BQ_COMPUTE_PROJECT_ID : EnvValues, BQ_DATASET_ID : EnvValues]
    /\ table \in SeedTables
    /\ state = EmptyDict
    /\ calls = <<>>
    /\ last = NoCall
    /\ FrontendIdle
    /\ modules = NotLoaded

NextResearch ==
    \/ \E target_date \in TargetDates, has_context \in BOOLEAN :
            fetch_and_insert_demand_data(target_date, has_context)
    \/ \E description \in Descriptions, has_context \in BOOLEAN, failing \in 0..2 :
            store_qualitative_description(description, has_context, failing)
    \/ Tick

SpecResearch == InitResearch /\ [][NextResearch]_vars

(***************************************************************************)
(* Root tool layer: call_*_agent                                           *)
(*   AgentTool.run_async is the ADK's: it returns the sub-agent's output   *)
(*   or raises.  While it runs, the BigQuery and AlloyDB sub-agents may    *)
(*   leave their query result in the session state.                        *)
(***************************************************************************)

Questions == {"What is the demand?"}

\* What a sub-agent run returns: an answer, or a text that explains an error.
AgentOutputs == {"answer", "Error: the query failed"}

QueryResults == {"rows"}

\* The ways AgentTool.run_async ends.
RunOutcomes == [kind : {"returns"}, output : AgentOutputs] \cup {[kind |-> "raises"]}

\* The session state after the sub-agent's run, before the tool stores the output.
AfterRun(st, result_key, wrote) ==
    IF wrote = None THEN st ELSE Update(st, result_key :> wrote[1])

RootFrame == UNCHANGED <<forecast_cache, fetched, today, env, table, calls, frontendVars>>

\* The globals of a sub-agent's agent module: the cached instance (None
\* before the first construction) and, as history, the instances constructed.
ModuleGlobals(agent, constructed) == [agent |-> agent, constructed |-> constructed]

\* An agent object: the n-th instance constructed with that name, and the
\* before_agent_callback it was given (None when the constructor got none).
AgentInstance(name, n, before_agent_callback) ==
    [name |-> name, instance |-> n, before_agent_callback |-> before_agent_callback]

\* Importing the package data_science.sub_agents runs its __init__, which
\* imports the analytics, bigquery, bqml and research agent modules; the
\* research module constructs its agent as it is imported.
ImportSubAgents(mods) ==
    IF "sub_agents" \in DOMAIN mods THEN mods
    ELSE Update(mods,
            "sub_agents" :> [loaded |-> TRUE] @@
            "analytics.agent" :> ModuleGlobals(None, 0) @@
            "bigquery.agent" :> ModuleGlobals(None, 0) @@
            "bqml.agent" :> ModuleGlobals(None, 0) @@
            "research.agent" :>
                ModuleGlobals(Some(AgentInstance("research_agent", 1, None)), 1))

\* from .sub_agents.alloydb.agent import get_alloydb_agent: the package first,
\* then the module, which imports its tools module.
ImportAlloydb(mods) ==
    LET package == ImportSubAgents(mods)
    IN  IF "alloydb.agent" \in DOMAIN package THEN package
        ELSE Update(package,
                "alloydb.agent" :> ModuleGlobals(None, 0) @@
                "alloydb.tools" :> [get_database_settings_calls |-> 0])

\* A getter that constructs an agent at every call.
GetAgentAlwaysNewMutant(mods, module, name, before_agent_callback) ==
    [mods EXCEPT ![module] =
        ModuleGlobals(Some(AgentInstance(name, @.constructed + 1, before_agent_callback)),
                      @.constructed + 1)]

\* get_alloydb_agent / get_analytics_agent: the modules after the call; the
\* call returns GetAgent(...)[module].agent[1].
GetAgent(mods, module, name, before_agent_callback) ==
    IF mods[module].agent = None
    THEN [mods EXCEPT ![module] =
            ModuleGlobals(Some(AgentInstance(name, @.constructed + 1,
                                             before_agent_callback)),
                          @.constructed + 1)]
    ELSE mods

\* The getters of the BigQuery and BQML agent modules: lazily constructed
\* singletons as well.
GetAgentOfMissingModule(mods, module, name) ==
    IF mods[module].agent = None
    THEN [mods EXCEPT ![module] =
            ModuleGlobals(Some(AgentInstance(name, @.constructed + 1, None)),
                          @.constructed + 1)]
    ELSE mods

\* setup_before_agent_call: the session state and the modules after it.
setup_before_agent_call(st, mods) ==
    IF "database_settings" \notin DOMAIN st
    THEN [state |-> Update(st, "database_settings" :> "settings"),
          modules |-> [mods EXCEPT !["alloydb.tools"].get_database_settings_calls = @ + 1]]
    ELSE [state |-> st, modules |-> mods]

\* What the ADK does before it runs an agent: it calls the agent's
\* before_agent_callback, if the agent was given one.
BeforeAgentRun(agent, st, mods) ==
    IF agent.before_agent_callback = Some("setup_before_agent_call")
    THEN setup_before_agent_call(st, mods)
    ELSE [state |-> st, modules |-> mods]

\* The ways a constructor ends.  Constructing the analytics agent constructs
\* a VertexAiCodeExecutor, which calls Vertex AI.
Constructions == {"constructed", "raises"}

\* A tool that stores the output and drops the other tools' outputs.
CallAgentToolOnlyLatestMutant(tool, request, output_key, ran, outcome) ==
    /\ IF outcome.kind = "raises"
       THEN /\ state' = ran
            /\ last' = Last(tool, request, TRUE, "exception")
       ELSE /\ state' = (output_key :> outcome.output)
            /\ last' = Last(tool, request, FALSE, outcome.output)
    /\ RootFrame

\* The common body of the five tools: run the sub-agent on `request`, store
\* what it returns under `output_key` and return it.  Nothing catches what
\* run_async raises.
CallAgentTool(tool, request, output_key, ran, outcome) ==
    /\ IF outcome.kind = "raises"
       THEN /\ state' = ran
            /\ last' = Last(tool, request, TRUE, "exception")
       ELSE /\ state' = Update(ran, output_key :> outcome.output)
            /\ last' = Last(tool, request, FALSE, outcome.output)
    /\ RootFrame

call_bigquery_agent(question, wrote, outcome) ==
    /\ CallAgentTool("call_bigquery_agent", [request |-> question], "bigquery_agent_output",
                     AfterRun(state, "bigquery_query_result", wrote), outcome)
    /\ modules' = GetAgentOfMissingModule(ImportSubAgents(modules), "bigquery.agent",
                                          "bigquery_agent")

\* The agent get_alloydb_agent returns is run by the ADK, which calls the
\* callback the agent holds before the run.
call_alloydb_agent(question, wrote, outcome) ==
    LET loaded == GetAgent(ImportAlloydb(modules), "alloydb.agent", "alloydb_agent", None)
        agent == loaded["alloydb.agent"].agent[1]
        before == BeforeAgentRun(agent, state, loaded)
    IN  /\ CallAgentTool("call_alloydb_agent", [request |-> question],
                         "alloydb_agent_output",
                         AfterRun(before.state, "alloydb_query_result", wrote), outcome)
        /\ modules' = before.modules

\* The request embeds the query results found in the session state ("" if absent).
\* When the agent is not yet cached and its construction raises, the tool
\* raises before it runs anything.
call_analytics_agent(question, construction, outcome) ==
    LET bigquery_data == Get(state, "bigquery_query_result", "")
        alloydb_data == Get(state, "alloydb_query_result", "")
        question_with_data ==
            [question |-> question, BIGQUERY |-> bigquery_data, ALLOYDB |-> alloydb_data]
        imported == ImportSubAgents(modules)
    IN  IF imported["analytics.agent"].agent = None /\ construction = "raises"
        THEN /\ modules' = imported
             /\ state' = state
             /\ last' = Last("call_analytics_agent", [request |-> question_with_data],
                             TRUE, "exception")
             /\ RootFrame
        ELSE /\ CallAgentTool("call_analytics_agent", [request |-> question_with_data],
                              "analytics_agent_output", state, outcome)
             /\ modules' = GetAgent(imported, "analytics.agent", "analytics_agent", None)

\* The research module holds its agent from the import on.
call_research_agent(request, outcome) ==
    /\ CallAgentTool("call_research_agent", [request |-> request], "research_agent_output",
                     state, outcome)
    /\ modules' = ImportSubAgents(modules)

call_bqml_agent(request, outcome) ==
    /\ CallAgentTool("call_bqml_agent", [request |-> request], "bqml_agent_output",
                     state, outcome)
    /\ modules' = GetAgentOfMissingModule(ImportSubAgents(modules), "bqml.agent",
                                          "bqml_agent")

\* The getters called on their own, and the package imported on its own.
get_alloydb_agent ==
    /\ modules' = GetAgent(ImportAlloydb(modules), "alloydb.agent", "alloydb_agent", None)
    /\ last' = Last("get_alloydb_agent", <<>>, FALSE, modules'["alloydb.agent"].agent[1])
    /\ state' = state
    /\ RootFrame

get_analytics_agent(construction) ==
    LET imported == ImportSubAgents(modules)
    IN  /\ IF imported["analytics.agent"].agent = None /\ construction = "raises"
           THEN /\ modules' = imported
                /\ last' = Last("get_analytics_agent", <<>>, TRUE, "exception")
           ELSE /\ modules' = GetAgent(imported, "analytics.agent", "analytics_agent",
                                       None)
                /\ last' = Last("get_analytics_agent", <<>>, FALSE,
                                modules'["analytics.agent"].agent[1])
        /\ state' = state
        /\ RootFrame

import_sub_agents ==
    /\ modules' = ImportSubAgents(modules)
    /\ last' = Last("import", "sub_agents", FALSE, <<>>)
    /\ state' = state
    /\ RootFrame

InitRoot ==
    /\ forecast_cache = EmptyDict
    /\ fetched = {}
    /\ today = StartDate
    /\ env = [BQ_COMPUTE_PROJECT_ID |-> Some("set"), BQ_DATASET_ID |-> Some("set")]
    /\ table = <<>>
    /\ state = EmptyDict
    /\ calls = <<>>
    /\ last = NoCall
    /\ FrontendIdle
    /\ modules = NotLoaded

NextRoot ==
    \/ \E question \in Questions, wrote \in {None} \cup {Some(r) : r \in QueryResults},
          outcome \in RunOutcomes :
            call_bigquery_agent(question, wrote, outcome)
    \/ \E question \in Questions, wrote \in {None} \cup {Some(r) : r \in QueryResults},
          outcome \in RunOutcomes :
            call_alloydb_agent(question, wrote, outcome)
    \/ \E question \in Questions, construction \in Constructions, outcome \in RunOutcomes :
            call_analytics_agent(question, construction, outcome)
    \/ \E request \in Questions, outcome \in RunOutcomes :
            call_research_agent(request, outcome)
    \/ \E request \in Questions, outcome \in RunOutcomes :
            call_bqml_agent(request, outcome)
    \/ get_alloydb_agent
    \/ \E construction \in Constructions : get_analytics_agent(construction)
    \/ import_sub_agents

SpecRoot == InitRoot /\ [][NextRoot]_vars

\* A tool module that imports the sub-agent package as it is loaded.
ImportToolsEagerMutant(mods) ==
    ImportSubAgents(Update(mods, "tools" :> [loaded |-> TRUE]))

\* import data_science.tools: the module's own imports are logging and the
\* ADK's ToolContext and AgentTool; every sub-agent import is in a function body.
ImportTools(mods) ==
    Update(mods, "tools" :> [loaded |-> TRUE])

\* The process loads the root tool layer.
import_tools ==
    /\ "tools" \notin DOMAIN modules
    /\ modules' = ImportTools(modules)
    /\ last' = Last("import", "tools", FALSE, <<>>)
    /\ state' = state
    /\ RootFrame

\* The deployed process: it loads the tool layer, then the orchestrator calls
\* the tools; nothing else in the repository imports a sub-agent module.
NextTools ==
    \/ import_tools
    \/ /\ "tools" \in DOMAIN modules
       /\ \/ \E question \in Questions, wrote \in {None} \cup {Some(r) : r \in QueryResults},
                outcome \in RunOutcomes :
                  call_bigquery_agent(question, wrote, outcome)
          \/ \E question \in Questions, wrote \in {None} \cup {Some(r) : r \in QueryResults},
                outcome \in RunOutcomes :
                  call_alloydb_agent(question, wrote, outcome)
          \/ \E question \in Questions, construction \in Constructions,
                outcome \in RunOutcomes :
                  call_analytics_agent(question, construction, outcome)
          \/ \E request \in Questions, outcome \in RunOutcomes :
                  call_research_agent(request, outcome)
          \/ \E request \in Questions, outcome \in RunOutcomes :
                  call_bqml_agent(request, outcome)

SpecTools == InitRoot /\ [][NextTools]_vars

(***************************************************************************)
(* Frontend: AgentEngineClient, the client of the hosted runtime           *)
(*   A text the code looks inside is a sequence of pieces, each a string   *)
(*   the code treats as a unit (Error, image/, a blank); the empty string  *)
(*   is the empty sequence.  A response body is the sequence of its lines. *)
(*   What json.loads makes of a line is the line's kind: empty,            *)
(*   undecodable (raises JSONDecodeError), scalar (a JSON number) or       *)
(*   object with `data`, the decoded dict; a JSON object whose key order   *)
(*   matters (the entries of artifact_delta) is a sequence of              *)
(*   [name, value] pairs.                                                  *)
(***************************************************************************)

StartsWith(text, piece) == Len(text) > 0 /\ text[1] = piece

EndsWith(text, piece) == Len(text) > 0 /\ text[Len(text)] = piece

Whitespace == {" ", "\n"}

\* str.strip()
RECURSIVE Strip(_)
Strip(text) ==
    IF text = <<>> THEN <<>>
    ELSE IF Head(text) \in Whitespace THEN Strip(Tail(text))
    ELSE IF text[Len(text)] \in Whitespace THEN Strip(SubSeq(text, 1, Len(text) - 1))
    ELSE text

\* What `gcloud auth print-access-token` prints when it exits with 0.
Stdouts == {<<>>, <<"\n">>, <<"ya29.token", "\n">>}

\* The ways subprocess.run(..., check=True) ends: the command exits with 0,
\* exits with another status, or cannot be started (gcloud is not installed).
GcloudRuns ==
    {[kind |-> "exit 0", stdout |-> out] : out \in Stdouts}
        \cup {[kind |-> "CalledProcessError"], [kind |-> "FileNotFoundError"]}

\* get_gcp_access_token(): Some(token), or None when the exception is not
\* the one it catches and so propagates.
get_gcp_access_token(run) ==
    IF run.kind = "exit 0" THEN Some(Strip(run.stdout))
    ELSE IF run.kind = "CalledProcessError" THEN Some(<<>>)
    ELSE None

\* AgentEngineClient._get_headers()
get_headers(token) ==
    [Authorization |-> <<"Bearer", " ">> \o token, ContentType |-> "application/json"]

\* query_stream's test of the header: it ends in the blank after "Bearer".
NoTokenStream(headers) == EndsWith(headers.Authorization, " ")

\* query_rich's test of the header.
NoTokenRich(headers) ==
    headers.Authorization = <<>> \/ headers.Authorization = <<"Bearer", " ">>

CredentialError ==
    <<"Error", ": Could not get GCP access token. Run gcloud auth login">>

\* The request body: session_id is put in only when it is truthy.
\* A payload that carries the session id field whatever its value.
PayloadAlwaysSessionMutant(message, user_id, session_id) ==
    [input |-> [message |-> message, user_id |-> user_id, session_id |-> session_id]]

Payload(message, user_id, session_id) ==
    IF Falsy(session_id)
    THEN [input |-> [message |-> message, user_id |-> user_id]]
    ELSE [input |-> [message |-> message, user_id |-> user_id,
                     session_id |-> session_id[1]]]

\* One POST to the endpoint, as recorded in `http`.
Request(entry, headers, payload) ==
    [entry |-> entry, headers |-> headers, json |-> payload]

\* "key in d" and d.get(key, "") on a decoded JSON object.
Has(d, key) == key \in DOMAIN d

GetText(d, key) == IF Has(d, key) THEN d[key] ELSE <<>>

\* AgentResponse() after __post_init__.
AgentResponse(text) ==
    [text |-> text, images |-> <<>>, artifacts |-> <<>>, tool_calls |-> <<>>,
     metadata |-> EmptyDict]

\* inline.get("mime_type", "").startswith("image/")
IsImage(inline) == StartsWith(GetText(inline, "mime_type"), "image/")

\* The image entry made of an artifact's inline_data.  (The data of a decoded
\* JSON value is never bytes, so the base64 branch is not taken.)
ArtifactImage(inline, artifact_name) ==
    [mime_type |-> inline.mime_type, data |-> GetText(inline, "data"),
     name |-> artifact_name]

\* An artifact stored as it came.
RawArtifact(artifact_name, artifact_data) ==
    [name |-> artifact_name, data |-> artifact_data]

\* Format 2: each part of the artifact's parts list, in order.
RECURSIVE ArtifactParts(_, _, _)
ArtifactParts(artifact_name, parts, acc) ==
    IF parts = <<>> THEN acc
    ELSE LET part == Head(parts)
             image == Has(part, "inline_data") /\ IsImage(part.inline_data)
             a1 == IF image
                   THEN [acc EXCEPT !.images =
                            Append(@, ArtifactImage(part.inline_data, artifact_name)),
                         !.image_extracted = TRUE]
                   ELSE acc
             a2 == IF Has(part, "text")
                   THEN [a1 EXCEPT !.artifacts =
                            Append(@, [name |-> artifact_name,
                                       data |-> [type |-> "text", content |-> part.text]])]
                   ELSE a1
         IN  ArtifactParts(artifact_name, Tail(parts), a2)

\* An entry handler that looks at the parts only and stores the raw artifact
\* even when an image was taken from it.
ArtifactEntryRawAlwaysMutant(artifact_name, artifact_data, result) ==
    LET a == ArtifactParts(artifact_name, GetText(artifact_data, "parts"),
                           [images |-> result.images, artifacts |-> result.artifacts,
                            image_extracted |-> FALSE])
    IN  [result EXCEPT !.images = a.images,
            !.artifacts = Append(a.artifacts, RawArtifact(artifact_name, artifact_data))]

\* One entry of artifact_delta (lines 434-490): images from the direct
\* inline_data and from every part, text parts and fileData as artifacts, and
\* the raw artifact when no image was taken from it.
ArtifactEntry(artifact_name, artifact_data, result) ==
    LET a0 == [images |-> result.images, artifacts |-> result.artifacts,
               image_extracted |-> FALSE]
        a1 == IF Has(artifact_data, "inline_data") /\ IsImage(artifact_data.inline_data)
              THEN [a0 EXCEPT !.images =
                        Append(@, ArtifactImage(artifact_data.inline_data, artifact_name)),
                    !.image_extracted = TRUE]
              ELSE a0
        a2 == IF Has(artifact_data, "parts")
              THEN ArtifactParts(artifact_name, artifact_data.parts, a1)
              ELSE a1
        a3 == IF Has(artifact_data, "fileData")
              THEN [a2 EXCEPT !.artifacts =
                        Append(@, [name |-> artifact_name,
                                   data |-> [type |-> "file",
                                             uri |-> GetText(artifact_data.fileData, "fileUri"),
                                             mime_type |-> GetText(artifact_data.fileData,
                                                                   "mimeType")]])]
              ELSE a2
        a4 == IF ~a3.image_extracted /\ DOMAIN artifact_data # {}
              THEN [a3 EXCEPT !.artifacts =
                        Append(@, RawArtifact(artifact_name, artifact_data))]
              ELSE a3
    IN  [result EXCEPT !.images = a4.images, !.artifacts = a4.artifacts]

\* for artifact_name, artifact_data in actions["artifact_delta"].items()
RECURSIVE ArtifactDelta(_, _)
ArtifactDelta(entries, result) ==
    IF entries = <<>> THEN result
    ELSE ArtifactDelta(Tail(entries),
                       ArtifactEntry(Head(entries).name, Head(entries).value, result))

\* The "actions" of an event: the state delta and the artifact delta.
Actions(actions, result) ==
    LET r1 == IF Has(actions, "state_delta") /\ DOMAIN actions.state_delta # {}
              THEN [result EXCEPT !.metadata = Update(@, "state" :> actions.state_delta)]
              ELSE result
    IN  IF Has(actions, "artifact_delta") /\ actions.artifact_delta # <<>>
        THEN ArtifactDelta(actions.artifact_delta, r1)
        ELSE r1

\* file_info.get("mime_type", file_info.get("mimeType", ""))
FileMime(file_info) ==
    IF Has(file_info, "mime_type") THEN file_info.mime_type
    ELSE GetText(file_info, "mimeType")

GetName(d, default) == IF Has(d, "name") THEN d.name ELSE default

\* for file_info in exec_result["output_files"]
RECURSIVE OutputFiles(_, _)
OutputFiles(files, result) ==
    IF files = <<>> THEN result
    ELSE LET file_info == Head(files)
             mime == FileMime(file_info)
             r == IF StartsWith(mime, "image/")
                  THEN [result EXCEPT !.images =
                            Append(@, [mime_type |-> mime,
                                       data |-> GetText(file_info, "data"),
                                       name |-> GetName(file_info, "chart")])]
                  ELSE [result EXCEPT !.artifacts =
                            Append(@, [name |-> GetName(file_info, "file"),
                                       data |-> [type |-> "file", mime_type |-> mime,
                                                 data |-> GetText(file_info, "data")]])]
         IN  OutputFiles(Tail(files), r)

\* The index of the first piece of `text` that is `piece`, 0 if there is none.
Find(text, piece) ==
    IF \E i \in 1..Len(text) : text[i] = piece
    THEN CHOOSE i \in 1..Len(text) :
            text[i] = piece /\ \A j \in 1..(i - 1) : text[j] # piece
    ELSE 0

\* "data:image" in output
HasDataImage(output) ==
    \E i \in 1..(Len(output) - 1) : output[i] = "data:" /\ output[i + 1] = "image"

\* output.split(",", 1), then the part before ";" without "data:".
DataUrlImage(output) ==
    LET comma == Find(output, ",")
        head == SubSeq(output, 1, comma - 1)
        semi == Find(head, ";")
        first == IF semi = 0 THEN head ELSE SubSeq(head, 1, semi - 1)
    IN  [mime_type |-> SelectSeq(first, LAMBDA piece : piece # "data:"),
         data |-> SubSeq(output, comma + 1, Len(output))]

\* The output text of a code execution: a data URL becomes an image, any
\* other text is kept as the artifact "code_output".  (The model's outputs
\* are shorter than the 10000 characters above which the text is dropped.)
Output(output, result) ==
    IF HasDataImage(output)
    THEN IF Find(output, ",") # 0
         THEN [result EXCEPT !.images = Append(@, DataUrlImage(output))]
         ELSE result
    ELSE IF Len(output) > 0
         THEN [result EXCEPT !.artifacts =
                   Append(@, [name |-> "code_output",
                              data |-> [type |-> "text", content |-> output]])]
         ELSE result

CodeExecutionResult(exec_result, result) ==
    LET r1 == IF Has(exec_result, "output_files") /\ exec_result.output_files # <<>>
              THEN OutputFiles(exec_result.output_files, result)
              ELSE result
    IN  IF Has(exec_result, "output") /\ exec_result.output # <<>>
        THEN Output(exec_result.output, r1)
        ELSE r1

\* One part of data["content"]["parts"] in query_rich (lines 494-569).
ContentPart(part, result) ==
    LET r1 == IF Has(part, "text") THEN [result EXCEPT !.text = part.text] ELSE result
        r2 == IF Has(part, "inline_data") /\ IsImage(part.inline_data)
              THEN [r1 EXCEPT !.images =
                        Append(@, [mime_type |-> part.inline_data.mime_type,
                                   data |-> GetText(part.inline_data, "data")])]
              ELSE r1
        r3 == IF Has(part, "code_execution_result")
              THEN CodeExecutionResult(part.code_execution_result, r2)
              ELSE r2
        r4 == IF Has(part, "function_call")
              THEN [r3 EXCEPT !.tool_calls =
                        Append(@, GetName(part.function_call, "unknown"))]
              ELSE r3
    IN  IF Has(part, "executable_code") /\ Has(part.executable_code, "code")
        THEN [r4 EXCEPT !.artifacts =
                  Append(@, [name |-> "executed_code",
                             data |-> [language |-> IF Has(part.executable_code, "language")
                                                    THEN part.executable_code.language
                                                    ELSE "python",
                                       code |-> part.executable_code.code]])]
        ELSE r4

RECURSIVE ContentParts(_, _)
ContentParts(parts, result) ==
    IF parts = <<>> THEN result
    ELSE ContentParts(Tail(parts), ContentPart(Head(parts), result))

\* One decoded event of the response in query_rich (lines 425-575).
RichEvent(data, result) ==
    LET r1 == IF Has(data, "actions") THEN Actions(data.actions, result) ELSE result
        r2 == IF Has(data, "content") /\ Has(data.content, "parts")
              THEN ContentParts(data.content.parts, r1)
              ELSE r1
        r3 == IF Has(data, "model_version")
              THEN [r2 EXCEPT !.metadata = Update(@, "model" :> data.model_version)]
              ELSE r2
    IN  IF Has(data, "usage_metadata")
        THEN [r3 EXCEPT !.metadata = Update(@, "usage" :> data.usage_metadata)]
        ELSE r3

\* What "x in data" raises when json.loads returned a number.
NotIterable == <<"Error", ": argument of type 'int' is not iterable">>

\* A loop that gives up at the first line json.loads rejects.
RECURSIVE RichLinesStopAtUndecodableMutant(_, _)
RichLinesStopAtUndecodableMutant(lines, result) ==
    IF lines = <<>> THEN result
    ELSE LET line == Head(lines)
         IN  IF line.kind = "empty" THEN RichLinesStopAtUndecodableMutant(Tail(lines), result)
             ELSE IF line.kind = "undecodable" THEN result
             ELSE IF line.kind = "scalar" THEN [result EXCEPT !.text = NotIterable]
             ELSE RichLinesStopAtUndecodableMutant(Tail(lines), RichEvent(line.data, result))

\* The loop over the lines of the body in query_rich (lines 418-578): an
\* empty line and a line json.loads rejects are passed over; any other
\* exception leaves the loop and becomes the text of the result.
RECURSIVE RichLines(_, _)
RichLines(lines, result) ==
    IF lines = <<>> THEN result
    ELSE LET line == Head(lines)
         IN  IF line.kind \in {"empty", "undecodable"} THEN RichLines(Tail(lines), result)
             ELSE IF line.kind = "scalar" THEN [result EXCEPT !.text = NotIterable]
             ELSE RichLines(Tail(lines), RichEvent(line.data, result))

\* for line in response.iter_lines() in query_stream (lines 355-365): the
\* texts yielded, in order; an exception other than JSONDecodeError ends the
\* stream with an error text (line 370).
RECURSIVE StreamParts(_)
StreamParts(parts) ==
    IF parts = <<>> THEN <<>>
    ELSE (IF Has(Head(parts), "text") THEN <<Head(parts).text>> ELSE <<>>)
             \o StreamParts(Tail(parts))

RECURSIVE StreamLines(_)
StreamLines(lines) ==
    IF lines = <<>> THEN <<>>
    ELSE LET line == Head(lines)
         IN  IF line.kind \in {"empty", "undecodable"} THEN StreamLines(Tail(lines))
             ELSE IF line.kind = "scalar" THEN <<NotIterable>>
             ELSE (IF Has(line.data, "content") /\ Has(line.data.content, "parts")
                   THEN StreamParts(line.data.content.parts)
                   ELSE <<>>) \o StreamLines(Tail(lines))

\* APIResponse
ApiSuccess(data) == [success |-> TRUE, data |-> Some(data), error |-> None]

ApiFailure(error) == [success |-> FALSE, data |-> None, error |-> Some(error)]

\* The loop of the async query (lines 632-650) over one event's parts.
RECURSIVE QueryParts(_, _)
QueryParts(parts, acc) ==
    IF parts = <<>> THEN acc
    ELSE LET part == Head(parts)
             a1 == IF Has(part, "text") THEN [acc EXCEPT !.response = part.text] ELSE acc
             a2 == IF Has(part, "inline_data") /\ IsImage(part.inline_data)
                   THEN [a1 EXCEPT !.images =
                            Append(@, [mime_type |-> part.inline_data.mime_type,
                                       data |-> GetText(part.inline_data, "data")])]
                   ELSE a1
         IN  QueryParts(Tail(parts), a2)

\* None when a line makes the loop raise (the result is then a failure).
RECURSIVE QueryLines(_, _)
QueryLines(lines, acc) ==
    IF lines = <<>> THEN Some(acc)
    ELSE LET line == Head(lines)
         IN  IF line.kind \in {"empty", "undecodable"} THEN QueryLines(Tail(lines), acc)
             ELSE IF line.kind = "scalar" THEN None
             ELSE QueryLines(Tail(lines),
                             IF Has(line.data, "content") /\ Has(line.data.content, "parts")
                             THEN QueryParts(line.data.content.parts, acc)
                             ELSE acc)

\* Inline data of the events the model's runtime sends.
Png == [mime_type |-> <<"image/", "png">>, data |-> <<"iVBOR">>]

Csv == [mime_type |-> <<"text/", "csv">>, data |-> <<"YSxi">>]

\* A text part, a closing event with text, picture and model version, an
\* artifact that is one picture, an artifact with a direct picture, two parts
\* (picture, text) and a file reference, an artifact that is a note (with a
\* state delta), and a code execution with its files, output and tool call.
Events ==
    { [content |-> [parts |-> << [text |-> <<"Sales", " rose">>] >>]],
      [content |-> [parts |-> << [text |-> <<"Error", " in the query">>],
                                 [inline_data |-> Png] >>],
       model_version |-> "gemini", usage_metadata |-> [total_token_count |-> 12]],
      [actions |-> [artifact_delta |->
            << [name |-> "chart.png", value |-> [parts |-> << [inline_data |-> Png] >>]] >>]],
      [actions |-> [artifact_delta |->
            << [name |-> "report", value |->
                    [inline_data |-> Png,
                     parts |-> << [inline_data |-> Png], [text |-> <<"caption">>] >>,
                     fileData |-> [fileUri |-> <<"gs://b/report">>]]] >>]],
      [actions |-> [state_delta |-> [bqml_agent_output |-> "answer"],
                    artifact_delta |->
            << [name |-> "notes", value |-> [parts |-> << [inline_data |-> Csv] >>]] >>]],
      [content |-> [parts |->
            << [function_call |-> [name |-> "call_analytics_agent"]],
               [executable_code |-> [code |-> <<"plt.show()">>]],
               [code_execution_result |->
                    [output_files |-> << [name |-> "plot.png",
                                          mime_type |-> <<"image/", "png">>,
                                          data |-> <<"iVBOR">>],
                                         [mimeType |-> <<"text/", "csv">>] >>,
                     output |-> <<"data:", "image", "/png", ";", "base64", ",", "iVBOR">>]],
               [code_execution_result |-> [output |-> <<"42">>]] >>]] }

Lines ==
    {[kind |-> "empty"], [kind |-> "undecodable"], [kind |-> "scalar"]}
        \cup {[kind |-> "object", data |-> e] : e \in Events}

\* The longest response body, in lines.
MaxLines == 2

Bodies == UNION {[1..n -> Lines] : n \in 0..MaxLines}

\* What the POST comes to: a response with a status and a body, a timeout,
\* or another transport error.
Replies ==
    {[kind |-> "response", status_code |-> 200, lines |-> b] : b \in Bodies}
        \cup {[kind |-> "response", status_code |-> 500, text |-> <<"Internal error">>],
              [kind |-> "TimeoutException"], [kind |-> "ConnectError"]}

Messages == {"What is the forecast for Dove?"}

SessionIds == {None, Some("s1")}

UserId == "frontend-user"

ClientFrame ==
    UNCHANGED <<forecast_cache, fetched, today, env, table, state, calls,
                runtime, session_state, modules>>

\* The text of an "except Exception as e" result.
ErrorText(reply) ==
    IF reply.kind = "TimeoutException" THEN <<"Error", ": Request timed out">>
    ELSE <<"Error", ": connection failed">>

\* Reading response.text of a streamed response that has not been read.
ResponseNotRead == <<"Error", ": Attempted to access streaming response content">>

StatusError(reply) == <<"Error", " 500", ": ">> \o reply.text

\* `http` holds the requests of the latest call.  `last` records the call
\* with how gcloud ended; what the POST comes to is `runtime`.
ClientCall(op, message, session_id, run, raised, value, requests) ==
    /\ last' = Last(op, <<message, session_id, run>>, raised, value)
    /\ http' = requests
    /\ ClientFrame

\* AgentEngineClient.query_stream, run to its end: the value is the sequence
\* of the texts it yields.
query_stream(message, session_id, run) ==
    LET token == get_gcp_access_token(run)
        op == "query_stream"
    IN  IF token = None
        THEN ClientCall(op, message, session_id, run, TRUE, "FileNotFoundError", <<>>)
        ELSE LET headers == get_headers(token[1])
                 sent == <<Request(op, headers, Payload(message, UserId, session_id))>>
             IN  IF NoTokenStream(headers)
                 THEN ClientCall(op, message, session_id, run, FALSE,
                                 <<CredentialError>>, <<>>)
                 ELSE LET reply == runtime IN
                        ClientCall(op, message, session_id, run, FALSE,
                            IF reply.kind # "response" THEN <<ErrorText(reply)>>
                            ELSE IF reply.status_code # 200 THEN <<ResponseNotRead>>
                            ELSE StreamLines(reply.lines),
                            sent)

\* What a query_rich call does, given how gcloud ends: whether it raises,
\* what it returns and the requests it sends.
RichCall(message, user_id, session_id, run) ==
    LET token == get_gcp_access_token(run)
    IN  IF token = None
        THEN [raised |-> TRUE, value |-> "FileNotFoundError", requests |-> <<>>]
        ELSE LET headers == get_headers(token[1])
                 sent == <<Request("query_rich", headers,
                                   Payload(message, user_id, session_id))>>
             IN  IF NoTokenRich(headers)
                 THEN [raised |-> FALSE, value |-> AgentResponse(CredentialError),
                       requests |-> <<>>]
                 ELSE [raised |-> FALSE,
                       value |-> IF runtime.kind # "response"
                                 THEN AgentResponse(ErrorText(runtime))
                                 ELSE IF runtime.status_code # 200
                                      THEN AgentResponse(StatusError(runtime))
                                 ELSE RichLines(runtime.lines, AgentResponse(<<>>)),
                       requests |-> sent]

\* AgentEngineClient.query_rich
query_rich(message, session_id, run) ==
    LET call == RichCall(message, UserId, session_id, run)
    IN  ClientCall("query_rich", message, session_id, run, call.raised, call.value,
                   call.requests)

\* The error text of the async query's failures: str(e), without "Error".
QueryErrorText(reply) ==
    IF reply.kind = "TimeoutException" THEN <<"Request timed out">>
    ELSE <<"connection failed">>

\* AgentEngineClient.query (async): it sends the request whatever the token.
query(message, session_id, run) ==
    LET token == get_gcp_access_token(run)
        op == "query"
    IN  IF token = None
        THEN ClientCall(op, message, session_id, run, TRUE, "FileNotFoundError", <<>>)
        ELSE LET headers == get_headers(token[1])
                 sent == <<Request(op, headers, Payload(message, UserId, session_id))>>
                 parsed(lines) == QueryLines(lines, [response |-> <<>>, images |-> <<>>])
                 reply == runtime
             IN     ClientCall(op, message, session_id, run, FALSE,
                        IF reply.kind # "response" THEN ApiFailure(QueryErrorText(reply))
                        ELSE IF reply.status_code # 200 THEN ApiFailure(StatusError(reply))
                        ELSE IF parsed(reply.lines) = None
                             THEN ApiFailure(Tail(NotIterable))
                        ELSE ApiSuccess(parsed(reply.lines)[1]),
                        sent)

InitClient ==
    /\ forecast_cache = EmptyDict
    /\ fetched = {}
    /\ today = StartDate
    /\ env = [BQ_COMPUTE_PROJECT_ID |-> None, BQ_DATASET_ID |-> None]
    /\ table = <<>>
    /\ state = EmptyDict
    /\ calls = <<>>
    /\ last = NoCall
    /\ http = <<>>
    /\ runtime \in Replies
    /\ session_state = EmptyDict
    /\ modules = NotLoaded

NextClient ==
    \/ \E message \in Messages, session_id \in SessionIds, run \in GcloudRuns :
            query_stream(message, session_id, run)
    \/ \E message \in Messages, session_id \in SessionIds, run \in GcloudRuns :
            query_rich(message, session_id, run)
    \/ \E message \in Messages, session_id \in SessionIds, run \in GcloudRuns :
            query(message, session_id, run)

SpecClient == InitClient /\ [][NextClient]_vars

(***************************************************************************)
(* Frontend: the Chatbot widget                                            *)
(*   One action is one run of render_chatbot with the event that caused    *)
(*   it.  The widget keeps chat_history and agent_session_id in            *)
(*   st.session_state; the fallback reads the mock service's cache.        *)
(***************************************************************************)

\* The capitalised pieces of the model's messages and their lower case.
LowerCase ==
    [Predict |-> "predict", Weather |-> "weather", Hello |-> "hello",
     Generate |-> "generate"]

\* str.lower()
Lower(text) ==
    [i \in 1..Len(text) |-> IF text[i] \in DOMAIN LowerCase THEN LowerCase[text[i]]
                            ELSE text[i]]

\* any(word in text for word in words)
AnyIn(words, text) == \E i \in 1..Len(text) : text[i] \in words

\* The headings of the four canned replies; the figures the code fills in
\* from the forecast are left out of the text.
ForecastReply == <<"**Demand Forecast Generated**", " (Mock Data - Agent Engine Unavailable)">>

DriverReply == <<"**Driver Importance Analysis**", " (Mock Data - Agent Engine Unavailable)">>

WeatherReply == <<"**Weather Impact**", " (Mock Data - Agent Engine Unavailable)">>

DefaultReply == <<"I'm the **Demand Planner Assistant**!", " Using mock data">>

CannedReplies == {ForecastReply, DriverReply, WeatherReply, DefaultReply}

\* A fallback that hands the failed answer on.
FallbackTextEchoMutant(message, failed) == failed

\* The text _fallback_mock_response chooses by the keywords of the message.
FallbackText(message, failed) ==
    LET message_lower == Lower(message)
    IN  IF AnyIn({"generate", "forecast", "predict"}, message_lower) THEN ForecastReply
        ELSE IF AnyIn({"driver", "important", "affect", "impact"}, message_lower)
             THEN DriverReply
        ELSE IF AnyIn({"weather", "temperature"}, message_lower) THEN WeatherReply
        ELSE DefaultReply

\* The choice _generate_rich_response makes once query_rich has ended: the
\* agent's response when its text is non-empty and does not start with
\* "Error", the canned reply otherwise and when the query raised.  `fallback`
\* tells that the mock service was used.
ResponseOrFallback(message, call, answered) ==
    [response |-> IF answered THEN call.value
                  ELSE AgentResponse(FallbackText(message,
                           IF call.raised THEN <<>> ELSE call.value.text)),
     fallback |-> ~answered,
     requests |-> call.requests,
     call |-> call]

\* Whether a query_rich call gave an answer the chatbot shows.
IsAnswer(call) ==
    /\ ~call.raised
    /\ call.value.text # <<>>
    /\ ~StartsWith(call.value.text, "Error")

ChooseResponse(message, call) == ResponseOrFallback(message, call, IsAnswer(call))

\* _generate_rich_response: the context-prefixed message goes to query_rich
\* with the session id the widget holds.
generate_rich_response(message, product_id, customer_id, location_id, as_of_date, run) ==
    ChooseResponse(message,
        RichCall([context |-> <<product_id, customer_id, location_id, Strftime(as_of_date)>>,
                  question |-> message],
                 <<"streamlit-", customer_id>>,
                 Get(session_state, "agent_session_id", None), run))

UserMessage(message) == [role |-> "user", content |-> message]

AssistantMessage(response) ==
    [role |-> "assistant", content |-> response.text, images |-> response.images,
     artifacts |-> response.artifacts, tool_calls |-> response.tool_calls]

\* The message a quick-action button sends.
ActionMessage(action, product_id, customer_id, location_id, as_of_date) ==
    IF action = "predict_sales"
    THEN <<"Predict", " POS sales for ", product_id, " at ", customer_id, " in ",
           location_id, " for ">> \o Strftime(as_of_date)
    ELSE <<"What are the most ", "important", " demand ", "driver", "s affecting ",
           product_id, " at ", customer_id, "?">>

\* The most user messages a chat holds.
MaxMessages == 2

UserMessages(history) ==
    Cardinality({i \in 1..Len(history) : history[i].role = "user"})

\* What the planner types into the chat input.
ChatInputs ==
    { <<"How does ", "weather", " ", "affect", " demand?">>,
      <<"Weather", " outlook">>,
      <<"Hello">> }

\* The events of a script run: nothing, a quick-action button, a typed
\* message, the Clear Chat button.
ChatEvents ==
    {[kind |-> "none"], [kind |-> "quick_forecast"], [kind |-> "quick_datascience"],
     [kind |-> "clear_chat"]}
        \cup {[kind |-> "chat_input", user_input |-> m] : m \in ChatInputs}

ChatFrame == UNCHANGED <<today, env, table, state, calls, runtime, modules>>

\* What _handle_user_message does with the generated response: the user's
\* message and the answer are appended to the history.
AppendExchange(ready, message, product_id, customer_id, location_id, as_of_date, event, run, generated) ==
    /\ UserMessages(ready["chat_history"]) < MaxMessages
    /\ session_state' =
           Update(ready, "chat_history" :>
               (ready["chat_history"]
                    \o <<UserMessage(message), AssistantMessage(generated.response)>>))
    /\ http' = generated.requests
    /\ forecast_cache' =
           IF generated.fallback
           THEN CacheAfterGet(forecast_cache, product_id, customer_id, location_id,
                              as_of_date)
           ELSE forecast_cache
    /\ fetched' =
           IF generated.fallback
           THEN fetched \cup {CacheKey(product_id, customer_id, location_id,
                                      Strftime(as_of_date))}
           ELSE fetched
    /\ last' = Last("render_chatbot", <<event, run, message>>, FALSE, generated.call)

\* _handle_user_message: generate the response, then append the exchange.
handle_user_message(ready, message, product_id, customer_id, location_id, as_of_date, event, run) ==
    AppendExchange(ready, message, product_id, customer_id, location_id, as_of_date, event,
                   run,
                   generate_rich_response(message, product_id, customer_id, location_id,
                                          as_of_date, run))

\* The message an event sends: a quick action's text or what was typed.
EventMessage(event, product_id, customer_id, location_id, as_of_date) ==
    IF event.kind = "quick_forecast"
    THEN ActionMessage("predict_sales", product_id, customer_id, location_id, as_of_date)
    ELSE IF event.kind = "quick_datascience"
    THEN ActionMessage("analyze_drivers", product_id, customer_id, location_id, as_of_date)
    ELSE event.user_input

\* A run that sends nothing.
IdleRun(after, event, run) ==
    /\ session_state' = after
    /\ last' = Last("render_chatbot", <<event, run, <<>>>>, FALSE, <<>>)
    /\ UNCHANGED <<http, forecast_cache, fetched>>

\* st.session_state once the widget has initialised its two keys.
Ready(session) ==
    Update([chat_history |-> <<>>, agent_session_id |-> None], session)

\* render_chatbot: one run of the widget's script.
render_chatbot(product_id, customer_id, location_id, as_of_date, event, run) ==
    /\ IF event.kind \in {"quick_forecast", "quick_datascience", "chat_input"}
       THEN handle_user_message(Ready(session_state),
                EventMessage(event, product_id, customer_id, location_id, as_of_date),
                product_id, customer_id, location_id, as_of_date, event, run)
       ELSE IF event.kind = "clear_chat"
       THEN IdleRun(Update(Ready(session_state),
                           "chat_history" :> <<>> @@ "agent_session_id" :> None),
                    event, run)
       ELSE IdleRun(Ready(session_state), event, run)
    /\ ChatFrame

\* The context the dashboard passes to the widget.
ChatContext == <<"PONDS_SUPER_LIGHT_GEL_100G", "BLINKIT", "BANGALORE">>

ChatDate == Date(2025, 12, 11)

\* What the runtime answers in a chat: every answer of at most one line.
ChatReplies ==
    {reply \in Replies :
        reply.kind = "response" /\ reply.status_code = 200 => Len(reply.lines) <= 1}

InitChat ==
    /\ forecast_cache = EmptyDict
    /\ fetched = {}
    /\ today = StartDate
    /\ env = [BQ_COMPUTE_PROJECT_ID |-> None, BQ_DATASET_ID |-> None]
    /\ table = <<>>
    /\ state = EmptyDict
    /\ calls = <<>>
    /\ last = NoCall
    /\ http = <<>>
    /\ runtime \in ChatReplies
    /\ session_state = EmptyDict
    /\ modules = NotLoaded

\* How gcloud ends during a chat: with a token, with an error status, not at all.
ChatRuns == {run \in GcloudRuns : run.kind = "exit 0" => run.stdout = <<"ya29.token", "\n">>}

NextChat ==
    \E event \in ChatEvents, run \in ChatRuns :
        render_chatbot(ChatContext[1], ChatContext[2], ChatContext[3], ChatDate, event, run)

SpecChat == InitChat /\ [][NextChat]_vars

(***************************************************************************)
(* Frontend: the Sidebar Chat                                              *)
(*   One action is one run of render_sidebar_chat with the event that      *)
(*   caused it.  The widget keeps sidebar_chat_history and chat_mode in    *)
(*   st.session_state and reads forecasts from the mock service.  The      *)
(*   content of a message is its heading and the figures it shows.         *)
(***************************************************************************)

\* `word in text` for the words the widget looks for.
Contains(text, words) == \E i \in 1..Len(text) : text[i] \in words

SidebarContent(text, figures) == [text |-> text, figures |-> figures]

SidebarMessage(role, content) == [role |-> role, content |-> content]

\* The greeting _start_demand_flow writes, with the context it shows.
DemandGreeting(product_id, customer_id, location_id, as_of_date) ==
    SidebarContent(<<"**Demand Forecast Generation**", product_id, customer_id, location_id>>
                       \o Strftime(as_of_date), <<>>)

AnalysisGreeting == SidebarContent(<<"**Data Science Query**">>, <<>>)

DemandHelp == SidebarContent(<<"Please type **'generate'** to create the forecast">>, <<>>)

NoModeHelp == SidebarContent(<<"I can help you with:">>, <<>>)

\* The reply that shows a forecast: baseline, sensed demand and change.
ForecastGenerated(forecast) ==
    SidebarContent(<<"**Forecast Generated!**">>,
                   <<forecast.baseline_forecast, forecast.sensed_demand,
                     forecast.boost_percent>>)

\* _start_demand_flow and _start_datascience_flow: the session after them.
start_demand_flow(session, product_id, customer_id, location_id, as_of_date) ==
    Update(session,
        "chat_mode" :> Some("demand") @@
        "sidebar_chat_history" :>
            <<SidebarMessage("assistant",
                  DemandGreeting(product_id, customer_id, location_id, as_of_date))>>)

start_datascience_flow(session) ==
    Update(session,
        "chat_mode" :> Some("datascience") @@
        "sidebar_chat_history" :> <<SidebarMessage("assistant", AnalysisGreeting)>>)

\* A demand mode that wants the keyword alone.
AffirmingWholeInputMutant(input_lower) ==
    input_lower \in {<<"generate">>, <<"yes">>, <<"proceed">>}

\* "generate" in input_lower or "yes" in input_lower or "proceed" in input_lower
Affirming(input_lower) == Contains(input_lower, {"generate", "yes", "proceed"})

\* A chat that looks for the analysis keywords first.
AutoStartAnalysisFirstMutant(input_lower) ==
    IF Contains(input_lower, {"driver", "analysis", "chart", "trend", "data"})
    THEN Some("datascience")
    ELSE IF Contains(input_lower, {"forecast", "demand", "generate", "predict"})
    THEN Some("demand")
    ELSE None

\* The mode a typed input starts while no mode is selected.
AutoStart(input_lower) ==
    IF Contains(input_lower, {"forecast", "demand", "generate", "predict"})
    THEN Some("demand")
    ELSE IF Contains(input_lower, {"driver", "analysis", "chart", "trend", "data"})
    THEN Some("datascience")
    ELSE None

\* _handle_custom_query
handle_custom_query(query_text, forecast) ==
    IF Contains(query_text, {"marketing", "spend"})
    THEN SidebarContent(<<"**Marketing Impact**">>,
                        <<Get(forecast.driver_contributions, "Marketing Spend", 0)>>)
    ELSE IF Contains(query_text, {"competitor"})
    THEN SidebarContent(<<"**Competitor Analysis**">>,
                        <<Get(forecast.driver_contributions, "Competitor", 0)>>)
    ELSE IF Contains(query_text, {"social", "trend"})
    THEN SidebarContent(<<"**Social & Trend Impact**">>,
                        <<Get(forecast.driver_contributions, "Social & Trend", 0)>>)
    ELSE SidebarContent(<<"I didn't understand that query.">>, <<>>)

\* The datascience branch of _generate_response.
AnalysisReply(input_lower, forecast) ==
    IF input_lower \in {<<"1">>, <<"driver">>, <<"importance">>, <<"drivers">>}
    THEN SidebarContent(<<"**Driver Importance Analysis**">>, <<>>)
    ELSE IF input_lower \in {<<"2">>, <<"trend">>, <<"trends">>}
    THEN SidebarContent(<<"**Trend Analysis**">>, <<>>)
    ELSE IF input_lower \in {<<"3">>, <<"correlation">>, <<"correlate">>}
    THEN SidebarContent(<<"**Correlation Analysis**">>, <<>>)
    ELSE IF input_lower \in {<<"4">>, <<"weather">>}
    THEN SidebarContent(<<"**Weather Impact Analysis**">>,
                        <<Get(forecast.driver_contributions, "Weather", 0)>>)
    ELSE handle_custom_query(input_lower, forecast)

\* What _generate_response comes to: the reply, the session and the cache
\* after it, and whether get_forecast was called.
Generated(response, session, cache, called) ==
    [response |-> response, session |-> session, cache |-> cache, called |-> called]

\* The reply of a flow that was just started: the last entry of the history.
StartedReply(started, cache) ==
    Generated(started["sidebar_chat_history"][Len(started["sidebar_chat_history"])].content,
              started, cache, FALSE)

\* The branches of _generate_response that read a forecast, given the cache
\* after get_forecast.
ReplyFromForecast(mode, input_lower, session, fetched_cache, cache_key) ==
    Generated(IF mode = Some("demand") THEN ForecastGenerated(fetched_cache[cache_key])
              ELSE AnalysisReply(input_lower, fetched_cache[cache_key]),
              session, fetched_cache, TRUE)

\* _generate_response, run on the session that already holds the user's message.
generate_response(session, cache, input_lower, product_id, customer_id, location_id, as_of_date) ==
    IF session["chat_mode"] = Some("demand") /\ ~Affirming(input_lower)
    THEN Generated(DemandHelp, session, cache, FALSE)
    ELSE IF session["chat_mode"] # None
    THEN ReplyFromForecast(session["chat_mode"], input_lower, session,
             CacheAfterGet(cache, product_id, customer_id, location_id, as_of_date),
             CacheKey(product_id, customer_id, location_id, Strftime(as_of_date)))
    ELSE IF AutoStart(input_lower) = Some("demand")
    THEN StartedReply(start_demand_flow(session, product_id, customer_id, location_id,
                                        as_of_date), cache)
    ELSE IF AutoStart(input_lower) = Some("datascience")
    THEN StartedReply(start_datascience_flow(session), cache)
    ELSE Generated(NoModeHelp, session, cache, FALSE)

\* list.append on sidebar_chat_history
AppendToHistory(session, message) ==
    Update(session,
           "sidebar_chat_history" :> Append(session["sidebar_chat_history"], message))

\* The end of _handle_user_input: the reply is appended to the history that
\* _generate_response left.
AppendReply(generated) ==
    [generated EXCEPT !.session =
        AppendToHistory(generated.session, SidebarMessage("assistant", generated.response))]

\* _handle_user_input: append the user's message, generate, append the reply.
handle_user_input(session, cache, user_input, product_id, customer_id, location_id, as_of_date) ==
    AppendReply(
        generate_response(
            AppendToHistory(session, SidebarMessage("user", SidebarContent(user_input, <<>>))),
            cache, Strip(Lower(user_input)), product_id, customer_id, location_id,
            as_of_date))

\* The most entries a sidebar chat holds.
MaxEntries == 4

\* What the planner types into the sidebar's chat input.
SidebarInputs ==
    { <<"Generate">>, <<"yes", "terday">>, <<"1">>, <<"forecast", " ", "trend">>,
      <<"How is ", "marketing", " doing?">>, <<"chart", "s">>, <<"Hello">> }

SidebarEvents ==
    {[kind |-> "none"], [kind |-> "btn_demand"], [kind |-> "btn_analysis"],
     [kind |-> "btn_clear_chat"]}
        \cup {[kind |-> "chat_input", user_input |-> m] : m \in SidebarInputs}

\* st.session_state once the widget has initialised its two keys.
SidebarReady(session) ==
    Update([sidebar_chat_history |-> <<>>, chat_mode |-> None], session)

SidebarFrame == UNCHANGED <<today, env, table, state, calls, http, runtime, modules>>

\* The end of a script run.
SidebarRun(event, after, cache, called, cache_key) ==
    /\ session_state' = after
    /\ forecast_cache' = cache
    /\ fetched' = IF called THEN fetched \cup {cache_key} ELSE fetched
    /\ last' = Last("render_sidebar_chat", event, FALSE, <<>>)
    /\ SidebarFrame

SidebarInputRun(event, handled, cache_key) ==
    SidebarRun(event, handled.session, handled.cache, handled.called, cache_key)

\* render_sidebar_chat: one run of the widget's script.  The Clear button is
\* on the page only while the history is not empty.
render_sidebar_chat(product_id, customer_id, location_id, as_of_date, event) ==
    IF event.kind = "btn_demand"
    THEN SidebarRun(event, start_demand_flow(SidebarReady(session_state), product_id,
                                             customer_id, location_id, as_of_date),
                    forecast_cache, FALSE, <<>>)
    ELSE IF event.kind = "btn_analysis"
    THEN SidebarRun(event, start_datascience_flow(SidebarReady(session_state)),
                    forecast_cache, FALSE, <<>>)
    ELSE IF event.kind = "chat_input"
    THEN /\ Len(SidebarReady(session_state)["sidebar_chat_history"]) + 2 <= MaxEntries
         /\ SidebarInputRun(event,
                handle_user_input(SidebarReady(session_state), forecast_cache,
                                  event.user_input, product_id, customer_id, location_id,
                                  as_of_date),
                CacheKey(product_id, customer_id, location_id, Strftime(as_of_date)))
    ELSE IF event.kind = "btn_clear_chat"
    THEN /\ SidebarReady(session_state)["sidebar_chat_history"] # <<>>
         /\ SidebarRun(event,
                Update(SidebarReady(session_state),
                       "sidebar_chat_history" :> <<>> @@ "chat_mode" :> None),
                forecast_cache, FALSE, <<>>)
    ELSE SidebarRun(event, SidebarReady(session_state), forecast_cache, FALSE, <<>>)

NextSidebar ==
    \E event \in SidebarEvents :
        render_sidebar_chat(ChatContext[1], ChatContext[2], ChatContext[3], ChatDate, event)

SpecSidebar == InitMock /\ [][NextSidebar]_vars

(***************************************************************************)
(* Frontend: the standalone chat's artifact fetcher                        *)
(*   `runtime` holds the session's artifacts, per name the sequence of     *)
(*   saved payloads (version v is entry v + 1); shown_artifacts lives in   *)
(*   st.session_state.  A payload is what inlineData.data decodes to: a    *)
(*   number of bytes, or nothing when it is not base64.                    *)
(***************************************************************************)

\* The highest version the fetcher probes (20 in the code).
TopVersion == 2

\* range(20, -1, -1)
Versions == 0..TopVersion

\* The artifact names probed, code_execution_image_{i}.png (two of the nine).
ChartNames == <<"code_execution_image_1.png", "code_execution_image_2.png">>

\* f"{artifact_name}:v{version}"
ArtifactKey(artifact_name, version) == <<artifact_name, ":v", version>>

\* What the runtime can hold as inlineData.data: base64 of 100 bytes, of 101
\* bytes, or text that base64 rejects.
Payloads == {[b64 |-> TRUE, bytes |-> 100], [b64 |-> TRUE, bytes |-> 101], [b64 |-> FALSE]}

\* base64.b64decode after the URL-safe translation: the decoded bytes, or
\* None when it raises.
B64Decode(payload) == IF payload.b64 THEN Some([len |-> payload.bytes]) ELSE None

\* A fetcher that keeps a payload of exactly 100 bytes.
LargeEnoughInclusiveMutant(image_data) == image_data.len >= 100

\* len(image_data) > 100
LargeEnough(image_data) == image_data.len > 100

\* requests.head(...).status_code == 200: the version exists and the request
\* did not raise (`unreachable` are the versions whose probe times out).
ProbeSucceeds(artifacts, artifact_name, version, unreachable) ==
    /\ version \notin unreachable
    /\ version < Len(artifacts[artifact_name])

\* The inner loop, from version down to 0: the first version that is not
\* shown and whose probe succeeds.
RECURSIVE HighestVersion(_, _, _, _, _)
HighestVersion(artifacts, artifact_name, version, already_shown, unreachable) ==
    IF version < 0 THEN None
    ELSE IF ArtifactKey(artifact_name, version) \in already_shown
    THEN HighestVersion(artifacts, artifact_name, version - 1, already_shown, unreachable)
    ELSE IF ProbeSucceeds(artifacts, artifact_name, version, unreachable)
    THEN Some(version)
    ELSE HighestVersion(artifacts, artifact_name, version - 1, already_shown, unreachable)

\* What try_fetch_artifact returns for a decoded payload.
FetchedArtifact(artifact_name, version, decoded) ==
    IF decoded # None /\ LargeEnough(decoded[1])
    THEN Some([name |-> artifact_name, version |-> version,
               key |-> ArtifactKey(artifact_name, version), data |-> decoded[1],
               content_type |-> <<"image/", "png">>])
    ELSE None

\* try_fetch_artifact: the artifact, or None.
try_fetch_artifact(artifacts, artifact_name, version, already_shown, fetched_names) ==
    IF ArtifactKey(artifact_name, version) \in already_shown \cup fetched_names THEN None
    ELSE IF version >= Len(artifacts[artifact_name]) THEN None
    ELSE FetchedArtifact(artifact_name, version,
                         B64Decode(artifacts[artifact_name][version + 1]))

\* One round of the outer loop: the list with what the name yields appended.
FetchOne(found, highest, artifacts, artifact_name, already_shown) ==
    IF highest = None THEN found
    ELSE LET artifact == try_fetch_artifact(artifacts, artifact_name, highest[1],
                                            already_shown, {a.key : a \in Range(found)})
         IN  IF artifact = None THEN found ELSE Append(found, artifact[1])

\* The outer loop over the names from the i-th on.
RECURSIVE FetchFrom(_, _, _, _, _)
FetchFrom(i, found, artifacts, already_shown, unreachable) ==
    IF i > Len(ChartNames) THEN found
    ELSE FetchFrom(i + 1,
             FetchOne(found,
                      HighestVersion(artifacts, ChartNames[i], TopVersion, already_shown,
                                     unreachable),
                      artifacts, ChartNames[i], already_shown),
             artifacts, already_shown, unreachable)

ArtifactFrame ==
    UNCHANGED <<forecast_cache, fetched, today, env, table, state, calls, http, modules>>

ShownArtifacts == Get(session_state, "shown_artifacts", {})

\* fetch_session_artifacts(session_id, st.session_state.shown_artifacts)
fetch_session_artifacts(unreachable) ==
    /\ last' = Last("fetch_session_artifacts", [unreachable |-> unreachable], FALSE,
                    FetchFrom(1, <<>>, runtime.artifacts, ShownArtifacts, unreachable))
    /\ session_state' = Update(session_state, "shown_artifacts" :> ShownArtifacts)
    /\ runtime' = runtime
    /\ ArtifactFrame

\* The chat history is rendered: every artifact of the latest answer that
\* holds more than 100 bytes is displayed and its key marked as shown.
show_artifacts ==
    /\ last.op = "fetch_session_artifacts"
    /\ session_state' =
           Update(session_state, "shown_artifacts" :>
               (ShownArtifacts \cup {a.key : a \in {b \in Range(last.value) : b.data.len > 100}}))
    /\ last' = Last("show_artifacts", <<>>, FALSE, <<>>)
    /\ runtime' = runtime
    /\ ArtifactFrame

\* The agent's code executor saves a new version of a chart.
save_artifact(artifact_name, payload) ==
    /\ Len(runtime.artifacts[artifact_name]) <= TopVersion
    /\ runtime' = [artifacts |-> [runtime.artifacts EXCEPT
                                     ![artifact_name] = Append(@, payload)]]
    /\ last' = Last("save_artifact", <<artifact_name, payload>>, FALSE, <<>>)
    /\ session_state' = session_state
    /\ ArtifactFrame

InitArtifacts ==
    /\ forecast_cache = EmptyDict
    /\ fetched = {}
    /\ today = StartDate
    /\ env = [BQ_COMPUTE_PROJECT_ID |-> None, BQ_DATASET_ID |-> None]
    /\ table = <<>>
    /\ state = EmptyDict
    /\ calls = <<>>
    /\ last = NoCall
    /\ http = <<>>
    /\ runtime = [artifacts |-> [n \in Range(ChartNames) |-> <<>>]]
    /\ session_state = [shown_artifacts |-> {}]
    /\ modules = NotLoaded

NextArtifacts ==
    \/ \E unreachable \in {{}} \cup {{v} : v \in Versions} :
            fetch_session_artifacts(unreachable)
    \/ show_artifacts
    \/ \E artifact_name \in Range(ChartNames), payload \in Payloads :
            save_artifact(artifact_name, payload)

SpecArtifacts == InitArtifacts /\ [][NextArtifacts]_vars

(***************************************************************************)
(* The whole system.  The parts share no state, so each is checked under   *)
(* its own specification.                                                  *)
(***************************************************************************)

Init == InitMock \/ InitResearch \/ InitRoot \/ InitClient \/ InitChat \/ InitArtifacts

Next ==
    \/ NextMock \/ NextDrivers \/ NextResearch \/ NextRoot \/ NextTools
    \/ NextClient \/ NextChat \/ NextSidebar \/ NextArtifacts

Spec == Init /\ [][Next]_vars

(***************************************************************************)
(* Properties of the mock forecast service (checked under SpecMock)        *)
(***************************************************************************)

\* The step is a call of update_forecast_approval (with the arguments that
\* `last` records after it).
UpdateStep ==
    /\ last'.op = "update_forecast_approval"
    /\ LET k == last'.args[1]
       IN  update_forecast_approval(k[1], k[2], k[3], k[4], last'.args[2], last'.args[3])

\* The step is a call of get_forecast.
GetStep ==
    /\ last'.op = "get_forecast"
    /\ LET k == last'.args
       IN  \E d \in AsOfDates : Strftime(d) = k[4] /\ get_forecast(k[1], k[2], k[3], d)

\* C1, as claimed: the approval status of a cached result changes only from
\* pending to approved or from pending to rejected; once approved or rejected
\* it never changes again.
C1_StatusLeavesPendingOnly ==
    [][ \A k \in DOMAIN forecast_cache :
            forecast_cache'[k].approval_status # forecast_cache[k].approval_status
            => /\ forecast_cache[k].approval_status = "pending"
               /\ forecast_cache'[k].approval_status \in {"approved", "rejected"} ]_vars

\* C1, amended: a cached result is never set back to pending: whenever its
\* approval status changes, the new status is approved or rejected (the one
\* the call passed), whatever the status was before.
C1_NeverBackToPending ==
    [][ /\ \A k \in DOMAIN forecast_cache :
              forecast_cache'[k].approval_status # forecast_cache[k].approval_status
              => forecast_cache'[k].approval_status \in {"approved", "rejected"}
        /\ UpdateStep /\ ~last'.raised
           => forecast_cache'[last'.args[1]].approval_status = last'.args[2] ]_vars

\* C1 witness: the Reject button was pressed on a result that carries a
\* planner override, which only an earlier approval can have stored.
C1_RejectedAfterApproval ==
    /\ last.op = "render_data_override_table"
    /\ last.args[2] = "reject"
    /\ forecast_cache[last.args[1]].approval_status = "rejected"
    /\ forecast_cache[last.args[1]].planner_override # None

\* C2: update_forecast_approval for a key get_forecast was never called for
\* raises the not-found error and leaves the cache as it was; for a key that
\* was fetched, a call with status "approved" and an override value returns
\* and leaves approval_status = "approved" and planner_override = that value.
C2_ApproveNeedsFetch ==
    [][ UpdateStep
        => LET k == last'.args[1]
               status == last'.args[2]
               o == last'.args[3]
           IN  IF k \notin fetched
               THEN /\ last'.raised
                    /\ last'.value = "ValueError"
                    /\ forecast_cache' = forecast_cache
               ELSE (status = "approved" /\ o # None)
                    => /\ ~last'.raised
                       /\ forecast_cache'[k].approval_status = "approved"
                       /\ forecast_cache'[k].planner_override = o ]_vars

\* C2 witness: a direct approval with an override value has succeeded.
C2_ApprovedWithOverride ==
    /\ last.op = "update_forecast_approval"
    /\ ~last.raised
    /\ last.args[2] = "approved"
    /\ last.args[3] # None
    /\ last.args[1] \in fetched
    /\ forecast_cache[last.args[1]].planner_override = last.args[3]

\* C3: every cached result has
\* sensed_demand = round(baseline * (1 + the sum of its six contributions)).
C3_SensedDemandFormula ==
    \A k \in DOMAIN forecast_cache :
        LET r == forecast_cache[k]
            c == r.driver_contributions
            total == c["Social & Trend"] + c["Marketing Spend"] + c["Trade Promo"]
                     + c["Digital Shelf"] + c["Weather"] + c["Competitor"]
            exact == r.baseline_forecast * (1000 + total)
        IN  \* the nearest integer, and the even one when two are equally near
            /\ DOMAIN c = Categories
            /\ 2 * Abs(100000 * r.sensed_demand - exact) <= 100000
            /\ 2 * Abs(100000 * r.sensed_demand - exact) = 100000
               => r.sensed_demand % 2 = 0

\* C3 witness: an approved result whose planner override differs from its
\* sensed demand.
C3_OverriddenResult ==
    \E k \in DOMAIN forecast_cache :
        /\ forecast_cache[k].approval_status = "approved"
        /\ forecast_cache[k].planner_override # None
        /\ forecast_cache[k].planner_override # Some(10 * forecast_cache[k].sensed_demand)

\* The computed fields of a result (all but the approval state).
Computed(r) ==
    <<r.baseline_forecast, r.sensed_demand, r.boost_percent, r.confidence_score,
      r.driver_contributions>>

\* C4: the first get_forecast for a key caches a result; every later call
\* with that key returns the cached result as it is and leaves the cache
\* untouched; no step removes a cache entry or changes its computed fields.
C4_GetForecastIdempotent ==
    [][ /\ \A k \in DOMAIN forecast_cache :
              /\ k \in DOMAIN forecast_cache'
              /\ Computed(forecast_cache'[k]) = Computed(forecast_cache[k])
        /\ GetStep
           => LET k == last'.args
              IN  /\ k \in DOMAIN forecast_cache'
                  /\ last'.value = forecast_cache'[k]
                  /\ k \in fetched
                     => /\ k \in DOMAIN forecast_cache
                        /\ forecast_cache' = forecast_cache
                        /\ last'.value = forecast_cache[k] ]_vars

\* C4 witness: get_forecast has returned a result that was approved or
\* rejected before the call.
C4_FetchedAgain ==
    /\ last.op = "get_forecast"
    /\ last.value.approval_status # "pending"
    /\ last.value.planner_override # None

(***************************************************************************)
(* Properties of the research tools (checked under SpecResearch)           *)
(***************************************************************************)

\* The step is a call of fetch_and_insert_demand_data.
FetchStep ==
    /\ last'.op = "fetch_and_insert_demand_data"
    /\ fetch_and_insert_demand_data(last'.args[1], last'.args[2])

\* The step is a call of store_qualitative_description.
StoreStep ==
    /\ last'.op = "store_qualitative_description"
    /\ \E failing \in 0..2 :
          store_qualitative_description(last'.args[1], last'.args[2], failing)

\* The calendar days among the requested dates, and the other requests.
RequestedDays == {Date(2025, 12, 15), Date(2025, 12, 16)}

MalformedDates == TargetDates \ {Strftime(d) : d \in RequestedDays}

FutureDateError == Failure("Cannot insert data for future date")

IsInsert(c) == c.api = "insert_rows_json"

\* C5: a call for a date after today returns the future-date failure, makes
\* no warehouse call, inserts nothing and leaves the session state as it
\* was; a call for today's date does not get the future-date failure.
C5_FutureDateRejected ==
    [][ FetchStep
        => \A d \in RequestedDays :
              last'.args[1] = Strftime(d)
              => /\ ToOrdinal(d) > ToOrdinal(today)
                    => /\ last'.value = FutureDateError
                       /\ calls' = <<>>
                       /\ table' = table
                       /\ state' = state
                 /\ d = today => last'.value # FutureDateError ]_vars

\* C5 witness: a future date was refused in a session that had already
\* inserted a row (the warehouse is configured and answers).
C5_FutureRefused ==
    /\ last.op = "fetch_and_insert_demand_data"
    /\ last.value = FutureDateError
    /\ calls = <<>>
    /\ "inserted_demand_data" \in DOMAIN state

\* C6: a call whose date is no calendar-date string returns the format
\* failure, and a call made while BQ_COMPUTE_PROJECT_ID or BQ_DATASET_ID is
\* unset (or empty) returns a failure (the configuration failure when the
\* date is acceptable); neither creates a client, queries or inserts.
C6_NoWarehouseCallOnBadInput ==
    [][ FetchStep
        => /\ last'.args[1] \in MalformedDates
              => /\ last'.value = Failure("Invalid date format")
                 /\ calls' = <<>>
                 /\ table' = table
           /\ \/ env.BQ_COMPUTE_PROJECT_ID \in {None, Some("")}
              \/ env.BQ_DATASET_ID \in {None, Some("")}
              => /\ ~last'.value.success
                 /\ calls' = <<>>
                 /\ table' = table
                 /\ last'.args[1] = Strftime(today)
                    => last'.value =
                         Failure("BQ_COMPUTE_PROJECT_ID or BQ_DATASET_ID not configured.") ]_vars

\* C6 witness: the configuration failure was returned for today's date, with
\* no warehouse call, although the table has rows to copy.
C6_NotConfigured ==
    /\ last.op = "fetch_and_insert_demand_data"
    /\ last.value = Failure("BQ_COMPUTE_PROJECT_ID or BQ_DATASET_ID not configured.")
    /\ last.args[1] = Strftime(today)
    /\ calls = <<>>
    /\ table # <<>>

\* C7: a successful call makes exactly one insert, of exactly one row; the
\* row carries PONDS/BLINKIT/Bangalore and the requested date, whatever the
\* copied row holds, and the table is the old table with that row appended.
C7_OneFixedRowInserted ==
    [][ FetchStep /\ last'.value.success
        => LET inserts == SelectSeq(calls', IsInsert)
           IN  /\ Len(inserts) = 1
               /\ Len(inserts[1].rows) = 1
               /\ LET row == inserts[1].rows[1]
                  IN  /\ row["product_id"] = "PONDS"
                      /\ row["customer_id"] = "BLINKIT"
                      /\ row["location_id"] = "Bangalore"
                      /\ row["date_consensus"] = last'.args[1]
                      /\ \A c \in Range(FEATURE_COLUMNS) :
                            row[c] = last'.value.features[c]
                      /\ table' = Append(table, row) ]_vars

\* C7 witness: the row of another product, customer and location was copied
\* on a day after the requested date.
C7_CopiedForeignRow ==
    /\ last.op = "fetch_and_insert_demand_data"
    /\ last.value.success
    /\ last.value.features["pdp_views"] = table[1]["pdp_views"]
    /\ table[1]["product_id"] = "DOVE"
    /\ table[Len(table)]["product_id"] = "PONDS"
    /\ last.args[1] # Strftime(today)

\* C8, as claimed: neither research tool raises to its caller; whatever
\* fails, the tool returns {success: false, error: ...}.
C8_ResearchToolsNeverRaise ==
    last.op \in {"fetch_and_insert_demand_data", "store_qualitative_description"}
    => ~last.raised

\* C9: with an empty description the tool returns a failure and leaves the
\* session state as it was; with a non-empty one, a call that has a tool
\* context and returns has set qualitative_description and, when
\* inserted_demand_data was in the state, qualitative_context with that
\* data's product, customer, location and date and the description.
C9_DescriptionStored ==
    [][ StoreStep
        => LET description == last'.args[1]
               has_context == last'.args[2]
           IN  /\ description = <<>>
                  => /\ last'.value = Failure("Description cannot be empty.")
                     /\ state' = state
               /\ description # <<>> /\ has_context /\ ~last'.raised
                  => /\ last'.value.success
                     /\ state'["qualitative_description"] = description
                     /\ "inserted_demand_data" \in DOMAIN state
                        => LET data == state["inserted_demand_data"]
                               context == state'["qualitative_context"]
                           IN  /\ context.product_id = data.product_id
                               /\ context.customer_id = data.customer_id
                               /\ context.location_id = data.location_id
                               /\ context.date = data.date
                               /\ context.description = description
                               /\ state'["inserted_demand_data"] = data ]_vars

\* C9 witness: a description was stored with the context of a row inserted
\* for a day before today.
C9_ContextOfInsertedRow ==
    /\ last.op = "store_qualitative_description"
    /\ ~last.raised
    /\ "qualitative_context" \in DOMAIN state
    /\ state["qualitative_context"].date = state["inserted_demand_data"].date
    /\ state["qualitative_context"].date # Strftime(today)
    /\ state["qualitative_context"].description = last.args[1]

(***************************************************************************)
(* Properties of the root tool layer (checked under SpecRoot)              *)
(***************************************************************************)

RootTools ==
    {"call_bigquery_agent", "call_alloydb_agent", "call_analytics_agent",
     "call_research_agent", "call_bqml_agent"}

\* C10, as claimed: no root tool raises to the orchestrator when its
\* sub-agent's run fails; it returns a structured result.
C10_RootToolsNeverRaise ==
    last.op \in RootTools => ~last.raised

\* The session-state key under which each root tool stores what it returns.
OutputKey ==
    [call_bigquery_agent |-> "bigquery_agent_output",
     call_alloydb_agent |-> "alloydb_agent_output",
     call_analytics_agent |-> "analytics_agent_output",
     call_research_agent |-> "research_agent_output",
     call_bqml_agent |-> "bqml_agent_output"]

\* Keys the sub-agent's own run leaves in the session state, not the tool.
SubAgentKeys == {"bigquery_query_result", "alloydb_query_result"}

ClientEntries == {"query_stream", "query_rich", "query"}

\* The latest call was an entry point of the client that found no token:
\* gcloud printed nothing but blanks, or exited with an error status.
NoCredential ==
    /\ last.op \in ClientEntries
    /\ get_gcp_access_token(last.args[3]) = Some(<<>>)

\* C12, as claimed: with no bearer credential each of the three entry points
\* returns or yields the credential error and sends no request.
C12_NoCredentialNoRequest ==
    NoCredential
    => /\ http = <<>>
       /\ last.op = "query_stream" => last.value = <<CredentialError>>
       /\ last.op = "query_rich" => last.value.text = CredentialError
       /\ last.op = "query" => ~last.value.success

\* The latest call was an entry point that got a 200 response.
Answered ==
    /\ last.op \in ClientEntries
    /\ http # <<>>
    /\ runtime.kind = "response"
    /\ runtime.status_code = 200

\* The body without the lines json.loads rejects.
Decodable(lines) == SelectSeq(lines, LAMBDA line : line.kind # "undecodable")

\* C13: a line of the response that fails JSON decoding is passed over
\* wherever it stands: each entry point's result is the result for the same
\* body with those lines taken out, so the lines after one are still parsed.
C13_UndecodableLinesSkipped ==
    Answered
    => LET body == Decodable(runtime.lines)
           parsed == QueryLines(body, [response |-> <<>>, images |-> <<>>])
       IN  /\ last.op = "query_stream" => last.value = StreamLines(body)
           /\ last.op = "query_rich" => last.value = RichLines(body, AgentResponse(<<>>))
           /\ last.op = "query"
              => last.value = IF parsed = None THEN ApiFailure(Tail(NotIterable))
                              ELSE ApiSuccess(parsed[1])

\* query_rich got a body whose first line does not decode and whose second
\* line carries a text, and returned that text.
C13_TextAfterUndecodable ==
    /\ Answered
    /\ last.op = "query_rich"
    /\ Len(runtime.lines) = 2
    /\ runtime.lines[1].kind = "undecodable"
    /\ runtime.lines[2].kind = "object"
    /\ last.value.text = <<"Sales", " rose">>

\* The artifact_delta entries query_rich comes to, in order: those of the
\* object lines before the first line that makes the loop raise.
RECURSIVE ArtifactEntries(_)
ArtifactEntries(lines) ==
    IF lines = <<>> \/ Head(lines).kind = "scalar" THEN <<>>
    ELSE (IF /\ Head(lines).kind = "object"
             /\ Has(Head(lines).data, "actions")
             /\ Has(Head(lines).data.actions, "artifact_delta")
          THEN Head(lines).data.actions.artifact_delta
          ELSE <<>>) \o ArtifactEntries(Tail(lines))

\* parts[0].inline_data of the artifact is an image.
FirstPartIsImage(value) ==
    /\ Has(value, "parts")
    /\ value.parts # <<>>
    /\ Has(value.parts[1], "inline_data")
    /\ IsImage(value.parts[1].inline_data)

\* The image-typed inline_data of an artifact: the direct one and each part's.
ImagesIn(value) ==
    (IF Has(value, "inline_data") /\ IsImage(value.inline_data) THEN 1 ELSE 0)
        + Cardinality({i \in 1..Len(GetText(value, "parts")) :
                          /\ Has(value.parts[i], "inline_data")
                          /\ IsImage(value.parts[i].inline_data)})

\* The entries of the response's images tagged with the name.
Tagged(images, name) ==
    Cardinality({i \in 1..Len(images) : Has(images[i], "name") /\ images[i].name = name})

InArtifacts(artifacts, entry) == \E i \in 1..Len(artifacts) : artifacts[i] = entry

\* C14, as claimed: an artifact whose parts[0].inline_data is an image (and
\* which the body carries once) gives exactly one image entry with the
\* artifact's name and no raw entry in artifacts.
C14_ExactlyOneImagePerArtifact ==
    (Answered /\ last.op = "query_rich")
    => LET entries == ArtifactEntries(runtime.lines)
       IN  \A i \in 1..Len(entries) :
              (/\ FirstPartIsImage(entries[i].value)
               /\ \A j \in 1..Len(entries) : entries[j].name = entries[i].name => j = i)
              => /\ Tagged(last.value.images, entries[i].name) = 1
                 /\ ~InArtifacts(last.value.artifacts,
                                 RawArtifact(entries[i].name, entries[i].value))

\* C14, amended: such an artifact gives one image entry with its name for
\* each image-typed inline_data it holds (the direct one and every part's),
\* so at least one, and no raw entry in artifacts.
C14_OneImagePerInlineData ==
    (Answered /\ last.op = "query_rich")
    => LET entries == ArtifactEntries(runtime.lines)
       IN  \A i \in 1..Len(entries) :
              (/\ FirstPartIsImage(entries[i].value)
               /\ \A j \in 1..Len(entries) : entries[j].name = entries[i].name => j = i)
              => /\ Tagged(last.value.images, entries[i].name) = ImagesIn(entries[i].value)
                 /\ Tagged(last.value.images, entries[i].name) >= 1
                 /\ ~InArtifacts(last.value.artifacts,
                                 RawArtifact(entries[i].name, entries[i].value))

\* query_rich has read the artifact "report", which holds an image directly
\* and one as parts[0], and returned two images with that name.
C14_TwoImagesOfOneArtifact ==
    /\ Answered
    /\ last.op = "query_rich"
    /\ \E i \in 1..Len(ArtifactEntries(runtime.lines)) :
          /\ ArtifactEntries(runtime.lines)[i].name = "report"
          /\ FirstPartIsImage(ArtifactEntries(runtime.lines)[i].value)
    /\ Tagged(last.value.images, "report") = 2

(***************************************************************************)
(* Properties of the Chatbot widget (checked under SpecChat)               *)
(***************************************************************************)

\* The rich query of the latest run failed: it raised, or returned a text
\* that is empty or starts with "Error".
QueryFailed(call) ==
    \/ call.raised
    \/ call.value.text = <<>>
    \/ StartsWith(call.value.text, "Error")

\* The canned reply that answers the message: by the first keyword group,
\* in the order forecast, driver, weather, that has a word in it.
CannedFor(message) ==
    LET has(words) == \E i \in 1..Len(message) : Lower(message)[i] \in words
    IN  IF has({"generate", "forecast", "predict"}) THEN ForecastReply
        ELSE IF has({"driver", "important", "affect", "impact"}) THEN DriverReply
        ELSE IF has({"weather", "temperature"}) THEN WeatherReply
        ELSE DefaultReply

\* Every user message is followed by exactly one assistant message, and no
\* assistant message is empty or starts with "Error".
HistoryWellFormed(history) ==
    \A i \in 1..Len(history) :
        /\ history[i].role = IF i % 2 = 1 THEN "user" ELSE "assistant"
        /\ history[i].role = "user" => i < Len(history)
        /\ history[i].role = "assistant"
           => /\ history[i].content # <<>>
              /\ ~StartsWith(history[i].content, "Error")

\* C15: when the rich query raises or returns a text that is empty or starts
\* with "Error", the assistant's reply is the canned reply chosen by the
\* message's keywords; so after every run of the widget no assistant message
\* is empty or starts with "Error" and each user message has exactly one
\* assistant message after it.
C15_FallbackOnFailure ==
    [][ last'.op = "render_chatbot"
        => /\ HistoryWellFormed(session_state'["chat_history"])
           /\ last'.args[3] # <<>>
              => LET history == session_state'["chat_history"]
                     reply == history[Len(history)]
                 IN  /\ Len(history) = Len(Get(session_state, "chat_history", <<>>)) + 2
                     /\ history[Len(history) - 1] = UserMessage(last'.args[3])
                     /\ reply.role = "assistant"
                     /\ QueryFailed(last'.value)
                        => /\ reply.content = CannedFor(last'.args[3])
                           /\ reply.content \in CannedReplies
                           /\ reply.images = <<>> ]_vars

\* The runtime answered the second message, about weather and what affects
\* demand, with a text that starts with "Error"; the reply in the history is
\* the canned driver analysis.
C15_ErrorAnswerReplaced ==
    /\ last.op = "render_chatbot"
    /\ last.args[3] # <<>>
    /\ ~last.value.raised
    /\ http # <<>>
    /\ StartsWith(last.value.value.text, "Error")
    /\ Len(session_state["chat_history"]) = 4
    /\ session_state["chat_history"][4].content = DriverReply
    /\ AnyIn({"weather"}, last.args[3])

(***************************************************************************)
(* Properties of the driver lookup (checked under SpecDrivers)             *)
(***************************************************************************)

\* C16: the scenario of a lookup is decided by the as-of date alone: bullish
\* if the day of the month is a multiple of 3 or the day is a Saturday or a
\* Sunday, else bearish if the day of the month is a multiple of 5, else
\* base, whatever the product, customer and location and whatever was looked
\* up before.
C16_ScenarioByDate ==
    last.op = "get_demand_drivers"
    => LET as_of_date == last.args[4]
           third == as_of_date.day % 3 = 0
           fifth == as_of_date.day % 5 = 0
           weekend == Weekday(as_of_date) \in {5, 6}
       IN  /\ (third \/ weekend) => last.value.scenario = "BULLISH"
           /\ (~third /\ ~weekend /\ fifth) => last.value.scenario = "BEARISH"
           /\ (~third /\ ~weekend /\ ~fifth) => last.value.scenario = "BASE"

\* Monday 2025-12-15, a multiple of 3 and of 5, was looked up for a
\* non-catalog product at ZEPTO, and is bullish.
C16_BothMultiplesBullish ==
    /\ last.op = "get_demand_drivers"
    /\ last.args = <<"DOVE", "ZEPTO", "MUMBAI", Date(2025, 12, 15)>>
    /\ Weekday(last.args[4]) = 0
    /\ last.value.scenario = "BULLISH"

(***************************************************************************)
(* Properties of the sub-agent modules (checked under SpecRoot)            *)
(***************************************************************************)

\* C19, as claimed: the setup hook runs before each AlloyDB agent
\* invocation, so once the agent has been invoked and has answered,
\* database_settings is in the session state and the settings were retrieved
\* exactly once.
C19_SettingsLoadedOnce ==
    (last.op = "call_alloydb_agent" /\ ~last.raised)
    => /\ "database_settings" \in DOMAIN state
       /\ modules["alloydb.tools"].get_database_settings_calls = 1

\* The instances of a module's agent constructed so far.
Constructed(mods, module) ==
    IF module \in DOMAIN mods THEN mods[module].constructed ELSE 0

\* The getter of each lazily built agent module and the root tool that calls it.
GetterOf ==
    [alloydb |-> [module |-> "alloydb.agent",
                  callers |-> {"get_alloydb_agent", "call_alloydb_agent"}],
     analytics |-> [module |-> "analytics.agent",
                    callers |-> {"get_analytics_agent", "call_analytics_agent"}]]

\* C20: for the AlloyDB and the Analytics agent, an instance is constructed
\* only in a step that calls the getter (none by the import), at most one
\* instance is ever constructed, and every getter call that returns returns
\* that one instance.
C20_LazySingleton ==
    [][ \A a \in DOMAIN GetterOf :
            LET module == GetterOf[a].module
            IN  /\ Constructed(modules', module) <= 1
                /\ Constructed(modules', module) # Constructed(modules, module)
                   => last'.op \in GetterOf[a].callers
                /\ (last'.op \in GetterOf[a].callers /\ ~last'.raised)
                   => /\ modules'[module].agent # None
                      /\ modules'[module].agent[1].instance = 1
                      /\ module \in DOMAIN modules /\ modules[module].agent # None
                         => modules'[module].agent = modules[module].agent
                /\ (last'.op = "get_" \o a \o "_agent" /\ ~last'.raised)
                   => last'.value = modules'[module].agent[1] ]_vars

\* get_analytics_agent was called after the analytics tool had already run
\* the agent, and returned the instance constructed first.
C20_SecondCallSameInstance ==
    /\ last.op = "get_analytics_agent"
    /\ ~last.raised
    /\ "analytics_agent_output" \in DOMAIN state
    /\ last.value.instance = 1
    /\ last.value = modules["analytics.agent"].agent[1]
    /\ modules["analytics.agent"].constructed = 1

(***************************************************************************)
(* Properties of the loading of the root tools (checked under SpecTools)   *)
(***************************************************************************)

\* The sub-agent modules loaded so far, with their globals.
SubAgentModules(mods) == [m \in DOMAIN mods \ {"tools"} |-> mods[m]]

SidebarHistory(session) == Get(session, "sidebar_chat_history", <<>>)

SidebarMode(session) == Get(session, "chat_mode", None)

\* The step is a script run that handles a typed input.
SidebarInputStep ==
    /\ last'.op = "render_sidebar_chat"
    /\ last'.args.kind = "chat_input"

\* The input of the step as the widget reads it, and the cache key of the context.
TypedLower == Strip(Lower(last'.args.user_input))

SidebarKey == CacheKey(ChatContext[1], ChatContext[2], ChatContext[3], Strftime(ChatDate))

LastEntry(history) == history[Len(history)]

\* C22: in demand mode a typed input that contains generate, yes or proceed
\* gets the forecast of the context computed (it is in the cache afterwards)
\* and shown in the reply; any other input gets the help message and leaves
\* the forecast cache as it was.
C22_DemandNeedsAffirmation ==
    [][ (SidebarInputStep /\ SidebarMode(session_state) = Some("demand"))
        => LET reply == LastEntry(SidebarHistory(session_state'))
           IN  /\ reply.role = "assistant"
               /\ IF Contains(TypedLower, {"generate", "yes", "proceed"})
                  THEN /\ SidebarKey \in DOMAIN forecast_cache'
                       /\ reply.content = ForecastGenerated(forecast_cache'[SidebarKey])
                  ELSE /\ reply.content = DemandHelp
                       /\ forecast_cache' = forecast_cache ]_vars

\* In demand mode the planner typed a word that only contains "yes", and the
\* forecast was computed and shown.
C22_KeywordInsideAWord ==
    /\ last.op = "render_sidebar_chat"
    /\ last.args = [kind |-> "chat_input", user_input |-> <<"yes", "terday">>]
    /\ SidebarMode(session_state) = Some("demand")
    /\ SidebarKey \in DOMAIN forecast_cache
    /\ LastEntry(SidebarHistory(session_state)).content
           = ForecastGenerated(forecast_cache[SidebarKey])

\* C24: the Demand button sets chat_mode to demand, the Analysis button to
\* datascience, the Clear button to none with an empty history; a typed input
\* changes it only while no mode is selected, to demand when it contains a
\* forecasting keyword, otherwise to datascience when it contains an analysis
\* keyword; no other step changes chat_mode.
C24_ModeChanges ==
    [][ LET before == SidebarMode(session_state)
            after == SidebarMode(session_state')
            kind == last'.args.kind
        IN  last'.op = "render_sidebar_chat"
            => /\ kind = "btn_demand" => after = Some("demand")
               /\ kind = "btn_analysis" => after = Some("datascience")
               /\ kind = "btn_clear_chat"
                  => after = None /\ SidebarHistory(session_state') = <<>>
               /\ kind = "none" => after = before
               /\ (kind = "chat_input" /\ before # None) => after = before
               /\ (kind = "chat_input" /\ before = None)
                  => after =
                       IF Contains(TypedLower, {"forecast", "demand", "generate", "predict"})
                       THEN Some("demand")
                       ELSE IF Contains(TypedLower,
                                        {"driver", "analysis", "chart", "trend", "data"})
                       THEN Some("datascience")
                       ELSE None ]_vars

\* With no mode selected the planner typed an input that holds a forecasting
\* and an analysis keyword, and the demand flow started.
C24_BothKeywordsStartDemand ==
    /\ last.op = "render_sidebar_chat"
    /\ last.args = [kind |-> "chat_input", user_input |-> <<"forecast", " ", "trend">>]
    /\ SidebarMode(session_state) = Some("demand")
    /\ LastEntry(SidebarHistory(session_state)).content
           = DemandGreeting(ChatContext[1], ChatContext[2], ChatContext[3], ChatDate)

\* C25, as claimed: a typed input makes the history grow by exactly the
\* user's message followed by one assistant reply, all earlier entries kept.
C25_HistoryGrowsByTwo ==
    [][ SidebarInputStep
        => LET history == SidebarHistory(session_state)
               grown == SidebarHistory(session_state')
           IN  /\ Len(grown) = Len(history) + 2
               /\ SubSeq(grown, 1, Len(history)) = history
               /\ grown[Len(history) + 1]
                      = SidebarMessage("user", SidebarContent(last'.args.user_input, <<>>))
               /\ grown[Len(grown)].role = "assistant" ]_vars

(***************************************************************************)
(* Properties of the artifact fetcher (checked under SpecArtifacts)        *)
(***************************************************************************)

\* The versions of a name that are not shown and whose probe succeeds.
Candidates(artifact_name, already_shown, unreachable) ==
    {v \in Versions : /\ ArtifactKey(artifact_name, v) \notin already_shown
                      /\ ProbeSucceeds(runtime.artifacts, artifact_name, v, unreachable)}

\* C23: a fetch returns at most one artifact per chart name; a returned
\* artifact is the highest version in TopVersion..0 that is not in the shown
\* set and whose probe succeeds, its key is not in the shown set, and its
\* decoded payload has more than 100 bytes.
C23_FetcherResult ==
    [][ last'.op = "fetch_session_artifacts"
        => LET result == last'.value
               candidates(a) == Candidates(a.name, ShownArtifacts, last'.args.unreachable)
           IN  /\ \A i, j \in 1..Len(result) : i # j => result[i].name # result[j].name
               /\ \A i \in 1..Len(result) :
                    /\ result[i].name \in Range(ChartNames)
                    /\ result[i].version \in candidates(result[i])
                    /\ \A v \in candidates(result[i]) : v <= result[i].version
                    /\ result[i].key = ArtifactKey(result[i].name, result[i].version)
                    /\ result[i].key \notin ShownArtifacts
                    /\ result[i].data.len > 100
                    /\ Some(result[i].data)
                         = B64Decode(runtime.artifacts[result[i].name][result[i].version + 1]) ]_vars

\* A chart whose latest version decodes to exactly 100 bytes while the version
\* before it is a full image: the fetch returned nothing for that name.
C23_SmallLatestDiscarded ==
    /\ last.op = "fetch_session_artifacts"
    /\ last.args.unreachable = {}
    /\ ShownArtifacts = {}
    /\ runtime.artifacts[ChartNames[1]]
           = <<[b64 |-> TRUE, bytes |-> 101], [b64 |-> TRUE, bytes |-> 100]>>
    /\ \A i \in 1..Len(last.value) : last.value[i].name # ChartNames[1]

\* C29, as claimed: a version a fetch returns for a name is never lower than
\* a version of that name that has already been shown.
C29_OnlyNewerVersions ==
    [][ last'.op = "fetch_session_artifacts"
        => \A i \in 1..Len(last'.value) : \A key \in ShownArtifacts :
               key[1] = last'.value[i].name => last'.value[i].version >= key[3] ]_vars

(***************************************************************************)
(* The frame of the approval update (checked under SpecMock)               *)
(***************************************************************************)

\* The fields of a forecast result an approval update may write.
ApprovalFields == {"approval_status", "planner_override"}

\* Entry k of the cache differs between the two caches at most in the
\* approval fields.
OnlyApprovalChanged(before, after, k) ==
    /\ DOMAIN after[k] = DOMAIN before[k]
    /\ \A f \in DOMAIN before[k] \ ApprovalFields : after[k][f] = before[k][f]

\* C26: a returning update_forecast_approval call leaves every other cache
\* entry and, in the addressed entry, every field but approval_status and
\* planner_override unchanged; planner_override becomes the override value
\* when one is supplied and stays what it was otherwise.  So do the calls the
\* widget's buttons make: Reject, and Approve with an input within 0.5 units
\* of the sensed demand, keep a stored planner_override.
C26_ApprovalFrame ==
    [][ /\ (last'.op = "update_forecast_approval" /\ ~last'.raised)
           => LET k == last'.args[1]
              IN  /\ DOMAIN forecast_cache' = DOMAIN forecast_cache
                  /\ \A j \in DOMAIN forecast_cache \ {k} :
                        forecast_cache'[j] = forecast_cache[j]
                  /\ OnlyApprovalChanged(forecast_cache, forecast_cache', k)
                  /\ forecast_cache'[k].planner_override =
                        IF last'.args[3] # None THEN last'.args[3]
                        ELSE forecast_cache[k].planner_override
        /\ (last'.op = "render_data_override_table" /\ last'.args[2] \in {"approve", "reject"})
           => LET k == last'.args[1]
                  typed == last'.args[3]
              IN  /\ \A j \in DOMAIN forecast_cache \ {k} :
                        forecast_cache'[j] = forecast_cache[j]
                  /\ k \in DOMAIN forecast_cache
                     => /\ OnlyApprovalChanged(forecast_cache, forecast_cache', k)
                        /\ (\/ last'.args[2] = "reject"
                            \/ Abs(typed - 10 * forecast_cache[k].sensed_demand) <= 5)
                           => forecast_cache'[k].planner_override
                                  = forecast_cache[k].planner_override ]_vars

\* The Approve button was pressed with the input half a unit from the sensed
\* demand, on a result that keeps the override an earlier approval stored.
C26_OverrideKeptByPlainApprove ==
    /\ last.op = "render_data_override_table"
    /\ last.args[2] = "approve"
    /\ Abs(last.args[3] - 10 * forecast_cache[last.args[1]].sensed_demand) = 5
    /\ forecast_cache[last.args[1]].approval_status = "approved"
    /\ forecast_cache[last.args[1]].planner_override # None

(***************************************************************************)
(* Session state of the research tools (checked under SpecResearch)        *)
(***************************************************************************)

\* C27: a fetch_and_insert_demand_data call that returns a failure leaves
\* the session state as it was; a call changes the state only when its insert
\* reported no error (the row is in the table), and then it sets
\* inserted_demand_data, and nothing else, to the fixed identifiers, the
\* requested date and the feature values copied into the row.
C27_StateOnlyAfterInsert ==
    [][ last'.op = "fetch_and_insert_demand_data"
        => /\ ~last'.value.success => state' = state
           /\ state' # state
              => /\ last'.value.success
                 /\ Len(calls') = 3
                 /\ IsInsert(calls'[3])
                 /\ table' = Append(table, calls'[3].rows[1])
           /\ (last'.value.success /\ last'.args[2])
              => LET row == table'[Len(table')]
                     data == state'["inserted_demand_data"]
                 IN  /\ DOMAIN state' = DOMAIN state \cup {"inserted_demand_data"}
                     /\ \A k \in DOMAIN state \ {"inserted_demand_data"} :
                           state'[k] = state[k]
                     /\ data.product_id = "PONDS"
                     /\ data.customer_id = "BLINKIT"
                     /\ data.location_id = "Bangalore"
                     /\ data.date = last'.args[1]
                     /\ DOMAIN data.features = Range(FEATURE_COLUMNS)
                     /\ \A c \in Range(FEATURE_COLUMNS) : data.features[c] = row[c] ]_vars

\* An insert succeeded on a day after the requested date, in a session that
\* already held a description: the state gained the data of the requested date.
C27_DataOfRequestedDate ==
    /\ last.op = "fetch_and_insert_demand_data"
    /\ last.value.success
    /\ last.args[2]
    /\ last.args[1] # Strftime(today)
    /\ "qualitative_description" \in DOMAIN state
    /\ state["inserted_demand_data"].date = last.args[1]

\* Both keys are in the session state.
BothStored(st) == {"qualitative_context", "inserted_demand_data"} \subseteq DOMAIN st

\* C28, as claimed: whenever qualitative_context and inserted_demand_data
\* are both in the session state, the context has the date, product, customer
\* and location of inserted_demand_data.
C28_ContextOfLatestInsert ==
    BothStored(state)
    => /\ state["qualitative_context"].date = state["inserted_demand_data"].date
       /\ state["qualitative_context"].product_id = state["inserted_demand_data"].product_id
       /\ state["qualitative_context"].customer_id = state["inserted_demand_data"].customer_id
       /\ state["qualitative_context"].location_id = state["inserted_demand_data"].location_id

(***************************************************************************)
(* The chatbot's runtime session (checked under SpecChat)                  *)
(***************************************************************************)

====
